---- MODULE Spec2Model ----
(***************************************************************************)
(* Model of the dynamic CRUD platform: the permission evaluator            *)
(* (backend/src/utils/rbac.ts), the authenticate and requireRole middleware*)
(* (backend/src/middleware/auth.ts), the generic record handler            *)
(* (backend/src/routes/crudRoutes.ts), the Model Store and the Schema     *)
(* Materializer (services/modelService), the Dynamic Registry              *)
(* (utils/routeRegistry), the model administration routes                  *)
(* (routes/modelRoutes) and the start of the process (index.ts).           *)
(*                                                                         *)
(* Specifications: SpecPerm (one call of checkPermission), Spec (record    *)
(* requests on a published model), SpecFair (Spec when every awaited call  *)
(* returns or fails), SpecRace (record requests on two connections),       *)
(* SpecStore (a caller of the Model Store functions), SpecReg (process     *)
(* start, seeding and the administration surface, two connections),        *)
(* SpecLive (process start, seeding, and one client sending administration *)
(* and record requests).                                                   *)
(*                                                                         *)
(* JavaScript values are encoded as follows.  A string-valued optional     *)
(* property (tableName, ownerField, a column value) is a string, with the  *)
(* two strings Undefined and Null standing for the JavaScript values       *)
(* undefined and null.  An optional object (req.user, the record argument, *)
(* the result of loadModelDefinition) is a TLA+ record, with Absent        *)
(* standing for undefined/null.  An array is a sequence.                   *)
(***************************************************************************)
EXTENDS Integers, Sequences, FiniteSets, TLC

VARIABLES
    permCall,   \* one call of checkPermission: its arguments and its outcome
    models,     \* the Model Store: the text of each file of the models directory
    tables,     \* physical storage: rows by table name and id
    nextId,     \* the next server-generated record id (gen_random_uuid)
    now,        \* the storage clock, the value of NOW()
    reqs,       \* the record requests, one per client connection
    creator,    \* history: for each record id, the actor whose create inserted it
    appInstance,        \* routeRegistry: the express app handed to the registry, or "null"
    registeredRoutes,   \* routeRegistry: the set of lowercased model names registered
    mounts,     \* the routers mounted on the app by registerModelRoutes, in order
    admin,      \* the requests to /api/models, one per administrator connection
    seed,       \* the startup seeding process registerCRUDRoutes()
    storeCall   \* a caller of the modelService functions: its last completed call

vars == <<permCall, models, tables, nextId, now, reqs, creator,
          appInstance, registeredRoutes, mounts, admin, seed, storeCall>>

\* The variables the record handler and checkPermission never touch.
platformVars == <<appInstance, registeredRoutes, mounts, admin, seed, storeCall>>

\* The variables only the record handler and checkPermission touch.
handlerVars == <<permCall, nextId, now, reqs, creator>>

(***************************************************************************)
(* JavaScript values                                                       *)
(***************************************************************************)
Undefined == "<undefined>"
Null == "<null>"
Absent == [absent |-> TRUE]

\* !v for an optional string: undefined, null and '' are falsy.
Falsy(v) == v \in {Undefined, Null, ""}

\* !o for an optional object.
IsAbsent(o) == "absent" \in DOMAIN o

\* obj[key] on a plain object holding own properties only.
Get(obj, key) == IF key \in DOMAIN obj THEN obj[key] ELSE Undefined

\* arr.includes(x)
Includes(arr, x) == \E i \in 1..Len(arr) : arr[i] = x

\* The property names every plain object inherits from Object.prototype
\* (those a role string of the model can name).
ObjectPrototypeKeys == {"constructor"}

(***************************************************************************)
(* Domains                                                                 *)
(***************************************************************************)
Roles == {"Admin", "Manager", "constructor"}
Permissions == {"create", "read", "update", "delete"}
Tokens == {"all"} \cup Permissions

\* Longest rbac entry drawn for a call of checkPermission.
MaxPerms == 2

RECURSIVE SeqsUpTo(_, _)
SeqsUpTo(S, n) ==
    IF n = 0 THEN {<<>>}
    ELSE LET shorter == SeqsUpTo(S, n - 1)
         IN shorter \cup {Append(s, x) : s \in {t \in shorter : Len(t) = n - 1}, x \in S}

(***************************************************************************)
(* Permission evaluator: backend/src/utils/rbac.ts                         *)
(***************************************************************************)

\* model.rbac[role]: an own entry of the policy object (an array), else what
\* the role name finds on Object.prototype (a function object), else
\* undefined.
RbacLookup(rbac, role) ==
    IF role \in DOMAIN rbac THEN [type |-> "array", items |-> rbac[role]]
    ELSE IF role \in ObjectPrototypeKeys THEN [type |-> "function", items |-> <<>>]
    ELSE [type |-> "undefined", items |-> <<>>]

\* const permissions = model.rbac[role] || [];  (arrays and functions are
\* truthy, undefined is not)
PermissionsOf(model, role) ==
    LET entry == RbacLookup(model.rbac, role)
    IN IF entry.type = "undefined" THEN [type |-> "array", items |-> <<>>] ELSE entry

\* Variant: 'all' is treated as an ordinary token, so the ownership test
\* still applies to a role that holds it.
checkPermission_AllNotOverride(req, model, permission, record) ==
    IF IsAbsent(req.user) THEN "false"
    ELSE LET permissions == PermissionsOf(model, req.user.role)
         IN IF permissions.type # "array" THEN "TypeError"
            ELSE IF Includes(permissions.items, permission) \/ Includes(permissions.items, "all")
                 THEN IF permission \in {"update", "delete"} /\ ~Falsy(model.ownerField)
                      THEN IF IsAbsent(record) THEN "true"
                           ELSE IF Get(record, model.ownerField) = req.user.userId
                                THEN "true" ELSE "false"
                      ELSE "true"
            ELSE "false"

\* Variant: the ownership comparison is dropped.
checkPermission_NoOwnerCompare(req, model, permission, record) ==
    IF IsAbsent(req.user) THEN "false"
    ELSE LET permissions == PermissionsOf(model, req.user.role)
         IN IF permissions.type # "array" THEN "TypeError"
            ELSE IF Includes(permissions.items, "all") THEN "true"
            ELSE IF Includes(permissions.items, permission) THEN "true"
            ELSE "false"

\* Variant: a call without a record is denied on an owner-restricted
\* operation.
checkPermission_DenyPreCheck(req, model, permission, record) ==
    IF IsAbsent(req.user) THEN "false"
    ELSE LET permissions == PermissionsOf(model, req.user.role)
         IN IF permissions.type # "array" THEN "TypeError"
            ELSE IF Includes(permissions.items, "all") THEN "true"
            ELSE IF Includes(permissions.items, permission)
                 THEN IF permission \in {"update", "delete"} /\ ~Falsy(model.ownerField)
                      THEN IF IsAbsent(record) THEN "false"
                           ELSE IF Get(record, model.ownerField) = req.user.userId
                                THEN "true" ELSE "false"
                      ELSE "true"
            ELSE "false"

\* Variant: the ownership test applies to every operation, not only to
\* update and delete.
checkPermission_OwnerOnEveryOp(req, model, permission, record) ==
    IF IsAbsent(req.user) THEN "false"
    ELSE LET permissions == PermissionsOf(model, req.user.role)
         IN IF permissions.type # "array" THEN "TypeError"
            ELSE IF Includes(permissions.items, "all") THEN "true"
            ELSE IF Includes(permissions.items, permission)
                 THEN IF ~Falsy(model.ownerField)
                      THEN IF IsAbsent(record) THEN "true"
                           ELSE IF Get(record, model.ownerField) = req.user.userId
                                THEN "true" ELSE "false"
                      ELSE "true"
            ELSE "false"

\* checkPermission(req, model, permission, record): "true", "false", or
\* "TypeError" when permissions.includes is not a function.
checkPermission(req, model, permission, record) ==
    IF IsAbsent(req.user) THEN "false"
    ELSE LET permissions == PermissionsOf(model, req.user.role)
         IN IF permissions.type # "array" THEN "TypeError"
            ELSE IF Includes(permissions.items, "all") THEN "true"
            ELSE IF Includes(permissions.items, permission)
                 THEN IF permission \in {"update", "delete"} /\ ~Falsy(model.ownerField)
                      THEN IF IsAbsent(record) THEN "true"
                           ELSE IF Get(record, model.ownerField) = req.user.userId
                                THEN "true" ELSE "false"
                      ELSE "true"
            ELSE "false"

(***************************************************************************)
(* A single call of checkPermission on drawn arguments                     *)
(***************************************************************************)
NoCall == [req |-> [user |-> Absent], model |-> Absent, permission |-> "read",
           record |-> Absent, result |-> "none"]

PermUsers == {Absent} \cup
             {[userId |-> u, email |-> "e", role |-> r] : u \in {"u1", "u2"}, r \in Roles}

PermEntries == SeqsUpTo(Tokens, MaxPerms)

\* Policies with at most one role entry.
PermPolicies == {<<>>} \cup {[r \in {role} |-> e] : role \in Roles, e \in PermEntries}

PermOwnerFields == {Undefined, "", "ownerId"}

PermModels == {[name |-> "Task", tableName |-> Undefined, fields |-> <<>>,
                ownerField |-> f, rbac |-> p] : f \in PermOwnerFields, p \in PermPolicies}

\* The record argument: absent, a row with an owner column (possibly NULL),
\* or a row of a table that has no owner column.
PermRecords == {Absent, [id |-> "1"]} \cup
               {[id |-> "1", ownerId |-> o] : o \in {"u1", "u2", Null}}

PermInit ==
    /\ permCall \in [req : [user : PermUsers], model : PermModels,
                     permission : Permissions, record : PermRecords,
                     result : {"pending"}]
    /\ models = <<>>
    /\ tables = <<>>
    /\ nextId = <<>>
    /\ now = 0
    /\ reqs = <<>>
    /\ creator = <<>>
    /\ appInstance = "null"
    /\ registeredRoutes = <<>>
    /\ mounts = <<>>
    /\ admin = <<>>
    /\ seed = <<>>
    /\ storeCall = <<>>

CallCheckPermission ==
    /\ permCall.result = "pending"
    /\ permCall' = [permCall EXCEPT !.result =
                        checkPermission(permCall.req, permCall.model,
                                        permCall.permission, permCall.record)]
    /\ UNCHANGED <<models, tables, nextId, now, reqs, creator>>
    /\ UNCHANGED platformVars

PermNext == CallCheckPermission

SpecPerm == PermInit /\ [][PermNext]_vars

(***************************************************************************)
(* Identity verification: backend/src/middleware/auth.ts                   *)
(***************************************************************************)

\* The tokens jwt.verify accepts, with the payload each was signed with.
IssuedTokens ==
    [tokU1 |-> [userId |-> "u1", email |-> "e", role |-> "Manager"],
     tokU2 |-> [userId |-> "u2", email |-> "e", role |-> "Manager"],
     tokU3 |-> [userId |-> "u3", email |-> "e", role |-> "Viewer"],
     tokAdmin |-> [userId |-> "a1", email |-> "e", role |-> "Admin"]]

\* Authorization headers a request can carry: none, 'Bearer ' with nothing
\* after it, a string that does not verify, and the issued tokens.
AuthHeaders == {Undefined, "Bearer ", "Bearer forged"} \cup
               {"Bearer tokU1", "Bearer tokU2", "Bearer tokU3"}

\* req.headers.authorization?.replace('Bearer ', '')
BearerToken(header) ==
    CASE header = Undefined -> Undefined
      [] header = "Bearer " -> ""
      [] header = "Bearer forged" -> "forged"
      [] header = "Bearer tokU1" -> "tokU1"
      [] header = "Bearer tokU2" -> "tokU2"
      [] header = "Bearer tokU3" -> "tokU3"
      [] header = "Bearer tokAdmin" -> "tokAdmin"
      [] OTHER -> header

\* verifyToken(token): the payload, or a throw.
verifyToken(token) ==
    IF token \in DOMAIN IssuedTokens
    THEN [threw |-> FALSE, payload |-> IssuedTokens[token]]
    ELSE [threw |-> TRUE, payload |-> Absent]

\* Variant: a request without a token is passed on to the handler (no
\* req.user) instead of being answered.
authenticate_MissingTokenPasses(header) ==
    LET token == BearerToken(header)
    IN IF Falsy(token) THEN [status |-> 0, user |-> Absent]
       ELSE LET v == verifyToken(token)
            IN IF v.threw THEN [status |-> 401, user |-> Absent]
               ELSE [status |-> 0, user |-> v.payload]

\* authenticate(req, res, next): status 401 when it answers the request
\* itself, status 0 when it sets req.user and calls next().
authenticate(header) ==
    LET token == BearerToken(header)
    IN IF Falsy(token) THEN [status |-> 401, user |-> Absent]
       ELSE LET v == verifyToken(token)
            IN IF v.threw THEN [status |-> 401, user |-> Absent]
               ELSE [status |-> 0, user |-> v.payload]

\* Variant: any authenticated user passes.
requireRole_AnyRole(roles, user) ==
    IF IsAbsent(user) THEN 401
    ELSE 0

\* requireRole(...roles)(req, res, next): the status it answers with, or 0
\* when it calls next().
requireRole(roles, user) ==
    IF IsAbsent(user) THEN 401
    ELSE IF ~Includes(roles, user.role) THEN 403
    ELSE 0

(***************************************************************************)
(* Model Store and Schema Materializer: backend/src/types/auth.ts          *)
(* (services/modelService)                                                 *)
(***************************************************************************)

\* The model names in use: two that differ only in letter case, and a
\* third.
ModelNames == {"Task", "task", "Note"}

\* String.prototype.toLowerCase on the model names in use.
toLowerCase(str) ==
    CASE str = "Task" -> "task"
      [] str = "Note" -> "note"
      [] OTHER -> str

\* `${lower}s`
PlusS(str) == str \o "s"

\* Variant: the table name is always derived from the model name.
TableNameOf_IgnoresTableName(model) == PlusS(toLowerCase(model.name))

\* model.tableName || `${model.name.toLowerCase()}s`
TableNameOf(model) ==
    IF ~Falsy(model.tableName) THEN model.tableName
    ELSE PlusS(toLowerCase(model.name))

\* path.join(MODELS_DIR, `${modelName}.json`): the file of a model name,
\* relative to the models directory.
FilePath(modelName) == modelName \o ".json"

\* The optional properties of a declaration and of a field.
OptionalKeys == {"tableName", "ownerField", "default"}

\* JSON.stringify of an object: a property whose value is undefined is
\* left out of the text.
StringifyObject(obj) ==
    [k \in {j \in DOMAIN obj : ~(j \in OptionalKeys /\ obj[j] = Undefined)} |-> obj[k]]

\* Variant: the text does not hold the ownerField.
JSONStringify_WithoutOwnerField(model) ==
    LET top == StringifyObject([model EXCEPT !.ownerField = Undefined])
    IN [top EXCEPT !.fields =
           [i \in 1..Len(model.fields) |-> StringifyObject(model.fields[i])]]

\* JSON.stringify(model, null, 2): the text written to the file.
JSONStringify(model) ==
    LET top == StringifyObject(model)
    IN [top EXCEPT !.fields =
           [i \in 1..Len(model.fields) |-> StringifyObject(model.fields[i])]]

\* An object of the text, as its readers see it: an optional property the
\* text does not hold reads as undefined.
ParsedObject(obj, optional) == [k \in DOMAIN obj \cup optional |-> Get(obj, k)]

\* JSON.parse(content)
JSONParse(content) ==
    LET top == ParsedObject(content, {"tableName", "ownerField"})
    IN [top EXCEPT !.fields =
           [i \in 1..Len(content.fields) |-> ParsedObject(content.fields[i], {"default"})]]

\* Variant: a declaration the process found at startup is served from that
\* first reading, whatever the store holds now.
loadModelDefinition_Cached(modelName) ==
    IF \E d \in seed.startup : d.name = modelName
    THEN CHOOSE d \in seed.startup : d.name = modelName
    ELSE IF FilePath(modelName) \in DOMAIN models
    THEN JSONParse(models[FilePath(modelName)])
    ELSE Absent

\* loadModelDefinition(modelName): the declaration parsed from the file of
\* that name, or null when the file cannot be read.
loadModelDefinition(modelName) ==
    IF FilePath(modelName) \in DOMAIN models
    THEN JSONParse(models[FilePath(modelName)])
    ELSE Absent

\* file.replace('.json', ''): the file name without its first occurrence of
\* '.json', on the file names of the model names in use (identifiers, which
\* hold '.json' only at the end of their file name).
ReplaceJson(file) ==
    CASE file = "Task.json" -> "Task"
      [] file = "task.json" -> "task"
      [] file = "Note.json" -> "Note"
      [] OTHER -> file

\* The models directory after writeFile(filePath, content).
WithFile(dir, file, content) ==
    [f \in DOMAIN dir \cup {file} |-> IF f = file THEN content ELSE dir[f]]

\* Variant: unlink leaves the file where it is.
WithoutFile_KeepsFile(dir, file) == dir

\* The models directory after unlink(filePath) (which throws when there is
\* no such file; the caller ignores it).  Reads of the directory fail only
\* for a file that is not there; writes can fail.
WithoutFile(dir, file) == [f \in DOMAIN dir \ {file} |-> dir[f]]

\* The orders in which readdir may return the files of the directory.
ReaddirOrders(dir) ==
    LET n == Cardinality(DOMAIN dir)
    IN {o \in [1..n -> DOMAIN dir] : \A i, j \in 1..n : i # j => o[i] # o[j]}

\* listModelDefinitions(), on the files in the order readdir gave them: the
\* declarations loaded under the names derived from the file names (every
\* file of the directory ends with '.json').
RECURSIVE ListLoaded(_)
ListLoaded(files) ==
    IF files = <<>> THEN <<>>
    ELSE LET model == loadModelDefinition(ReplaceJson(Head(files)))
         IN (IF IsAbsent(model) THEN <<>> ELSE <<model>>) \o ListLoaded(Tail(files))

FieldNames(model) == {model.fields[i].name : i \in 1..Len(model.fields)}

\* The table CREATE TABLE IF NOT EXISTS defines for a declaration: its
\* columns, the NOT NULL and UNIQUE ones, the column defaults, and no rows.
NewTableFor(model) ==
    LET fs == model.fields
        owner == IF ~Falsy(model.ownerField) THEN {model.ownerField} ELSE {}
    IN [columns |-> {"id"} \cup owner \cup FieldNames(model) \cup {"createdAt", "updatedAt"},
        notNull |-> {fs[i].name : i \in {j \in 1..Len(fs) : fs[j].required}},
        unique |-> {fs[i].name : i \in {j \in 1..Len(fs) : fs[j].unique}},
        defaults |-> [c \in {fs[i].name : i \in {j \in 1..Len(fs) : fs[j].default # Undefined}}
                        |-> (CHOOSE i \in 1..Len(fs) : fs[i].name = c /\ fs[i].default # Undefined).default],
        rows |-> <<>>]

\* Variant: the table is dropped and created again from the declaration.
createTableForModel_Replaces(model) ==
    LET t == TableNameOf(model)
    IN [u \in DOMAIN tables \cup {t} |-> IF u = t THEN NewTableFor(model) ELSE tables[u]]

\* createTableForModel(model) when the statement succeeds: CREATE TABLE IF
\* NOT EXISTS adds the table when no table has its name, else changes
\* nothing.
createTableForModel(model) ==
    LET t == TableNameOf(model)
    IN IF t \in DOMAIN tables THEN tables
       ELSE [u \in DOMAIN tables \cup {t} |-> IF u = t THEN NewTableFor(model) ELSE tables[u]]

\* The column names of the CREATE TABLE statement, in its order.
ColumnList(model) ==
    <<"id">>
    \o (IF ~Falsy(model.ownerField) THEN <<model.ownerField>> ELSE <<>>)
    \o [i \in 1..Len(model.fields) |-> model.fields[i].name]
    \o <<"createdAt", "updatedAt">>

\* The storage server accepts the statement of createTableForModel: a table
\* of that name exists (the statement is then skipped), or the statement
\* names no column twice.
CreateAccepted(model) ==
    \/ TableNameOf(model) \in DOMAIN tables
    \/ LET cols == ColumnList(model)
       IN \A i, j \in 1..Len(cols) : i # j => cols[i] # cols[j]

\* The models directory holding the declarations decls.
StoreOf(decls) ==
    [f \in {FilePath(d.name) : d \in decls} |->
        JSONStringify(CHOOSE d \in decls : FilePath(d.name) = f)]

\* The tables left by earlier publishes of the declarations decls.
TablesOf(decls) ==
    [t \in {TableNameOf(d) : d \in decls} |->
        NewTableFor(CHOOSE d \in decls : TableNameOf(d) = t)]

(***************************************************************************)
(* Dynamic Registry: backend/src/utils/rbac.ts:96-125 (utils/routeRegistry)*)
(***************************************************************************)
\* A Set<string> is kept as the sequence of its members in insertion order.
SetHas(set, x) == \E i \in 1..Len(set) : set[i] = x

SetAdd(set, x) == IF SetHas(set, x) THEN set ELSE Append(set, x)

\* `/api/${modelNameLower}`, as its path segments.
MountPath(modelNameLower) == <<"api", modelNameLower>>

\* The registry and the app it mounts on, as one value.
Registry == [appInstance |-> appInstance, registeredRoutes |-> registeredRoutes,
             mounts |-> mounts, threw |-> FALSE]

\* Variant: the router is mounted and the name added on every call.
registerModelRoutes_NoHasCheck(reg, modelName) ==
    LET modelNameLower == toLowerCase(modelName)
    IN IF reg.appInstance = "null" THEN [reg EXCEPT !.threw = TRUE]
       ELSE [reg EXCEPT
                !.mounts = Append(reg.mounts, [path |-> MountPath(modelNameLower),
                                               modelName |-> modelName]),
                !.registeredRoutes = SetAdd(reg.registeredRoutes, modelNameLower)]

\* Variant: the set is asked for the name as given, not lowercased.
registerModelRoutes_HasAsGiven(reg, modelName) ==
    LET modelNameLower == toLowerCase(modelName)
    IN IF reg.appInstance = "null" THEN [reg EXCEPT !.threw = TRUE]
       ELSE IF SetHas(reg.registeredRoutes, modelName) THEN reg
       ELSE [reg EXCEPT
                !.mounts = Append(reg.mounts, [path |-> MountPath(modelNameLower),
                                               modelName |-> modelName]),
                !.registeredRoutes = SetAdd(reg.registeredRoutes, modelNameLower)]

\* registerModelRoutes(modelName) on registry reg: throws when the registry
\* has no app; returns at once when the lowercased name is registered; else
\* mounts createCRUDRoutes(modelName) and adds the lowercased name.
registerModelRoutes(reg, modelName) ==
    LET modelNameLower == toLowerCase(modelName)
    IN IF reg.appInstance = "null" THEN [reg EXCEPT !.threw = TRUE]
       ELSE IF SetHas(reg.registeredRoutes, modelNameLower) THEN reg
       ELSE [reg EXCEPT
                !.mounts = Append(reg.mounts, [path |-> MountPath(modelNameLower),
                                               modelName |-> modelName]),
                !.registeredRoutes = SetAdd(reg.registeredRoutes, modelNameLower)]

\* isRouteRegistered(modelName)
isRouteRegistered(modelName) == SetHas(registeredRoutes, toLowerCase(modelName))

\* getRegisteredRoutes(): Array.from(registeredRoutes)
getRegisteredRoutes == registeredRoutes

\* for (const model of models) registerModelRoutes(model.name): the loop of
\* registerCRUDRoutes, which a throw ends.
RECURSIVE RegisterEach(_, _)
RegisterEach(reg, list) ==
    IF list = <<>> \/ reg.threw THEN reg
    ELSE RegisterEach(registerModelRoutes(reg, Head(list).name), Tail(list))

(***************************************************************************)
(* Physical storage: the statements the record handler issues              *)
(***************************************************************************)
MaxRecords == 1
MaxTime == 1

RecordIds == 1..MaxRecords

\* SELECT * FROM t WHERE id = $1: the first row, or undefined.
SelectById(t, id) ==
    IF id \in DOMAIN tables[t].rows THEN tables[t].rows[id] ELSE Absent

\* The value a column takes when an INSERT does not name it.
ColumnDefault(t, c) ==
    IF c \in DOMAIN tables[t].defaults THEN tables[t].defaults[c] ELSE Null

\* Some other row already holds value v in a UNIQUE column c.
UniqueClash(t, id, c, v) ==
    /\ c \in tables[t].unique
    /\ v # Null
    /\ \E other \in DOMAIN tables[t].rows \ {id} : tables[t].rows[other][c] = v

\* INSERT INTO t (fields, createdAt, updatedAt) VALUES (..., NOW(), NOW())
\* is accepted: the table exists, the column list is not empty (else the
\* statement starts with a comma), names columns of the table only, and no
\* constraint is violated.
InsertAccepted(t, data) ==
    /\ t \in DOMAIN tables
    /\ DOMAIN data # {}
    /\ DOMAIN data \subseteq tables[t].columns
    /\ \A c \in tables[t].notNull :
           (IF c \in DOMAIN data THEN data[c] ELSE ColumnDefault(t, c)) # Null
    /\ \A c \in DOMAIN data : ~UniqueClash(t, 0, c, data[c])

\* The row INSERT ... RETURNING * yields.
InsertedRow(t, data, id) ==
    [c \in tables[t].columns |->
        IF c = "id" THEN id
        ELSE IF c \in {"createdAt", "updatedAt"} THEN now
        ELSE IF c \in DOMAIN data THEN data[c]
        ELSE ColumnDefault(t, c)]

\* UPDATE t SET fields, updatedAt = NOW() WHERE id = $n is accepted: the
\* table exists, the SET list is not empty (else it starts with a comma),
\* names columns of the table only, and no constraint is violated.
UpdateAccepted(t, id, data) ==
    /\ t \in DOMAIN tables
    /\ DOMAIN data # {}
    /\ DOMAIN data \subseteq tables[t].columns
    /\ id \in DOMAIN tables[t].rows =>
           /\ \A c \in DOMAIN data \cap tables[t].notNull : data[c] # Null
           /\ \A c \in DOMAIN data : ~UniqueClash(t, id, c, data[c])

\* The row UPDATE ... RETURNING * yields for an existing row.
UpdatedRow(row, data) ==
    [c \in DOMAIN row |->
        IF c = "updatedAt" THEN now
        ELSE IF c \in DOMAIN data THEN data[c]
        ELSE row[c]]

\* The table with row id written (inserted or replaced).
WithRow(t, id, row) ==
    [tables EXCEPT ![t].rows =
        [i \in DOMAIN tables[t].rows \cup {id} |-> IF i = id THEN row ELSE tables[t].rows[i]]]

\* The table after DELETE FROM t WHERE id = $1.
WithoutRow(t, id) ==
    [tables EXCEPT ![t].rows = [i \in DOMAIN tables[t].rows \ {id} |-> tables[t].rows[i]]]

\* The orders in which SELECT * ... ORDER BY "createdAt" DESC may return the
\* rows (rows with equal createdAt come in any order).
OrderedByCreatedAtDesc(t) ==
    LET ids == DOMAIN tables[t].rows
        n == Cardinality(ids)
    IN {o \in [1..n -> ids] :
           /\ \A i, j \in 1..n : i # j => o[i] # o[j]
           /\ \A i, j \in 1..n : i < j =>
                  tables[t].rows[o[i]].createdAt >= tables[t].rows[o[j]].createdAt}

(***************************************************************************)
(* Generic record handler: backend/src/routes/crudRoutes.ts                *)
(***************************************************************************)
\* The client connections of the sequential specification.
Conns == {1}

Ops == {"list", "get", "create", "update", "delete"}

\* The declarations a model file can hold.
TitleField == [name |-> "title", type |-> "string", required |-> FALSE,
               unique |-> FALSE, default |-> Undefined]

DeclOwned ==
    [name |-> "Task", tableName |-> Undefined, fields |-> <<TitleField>>,
     ownerField |-> "ownerId",
     rbac |-> [Manager |-> <<"create", "read", "update", "delete">>,
               Viewer |-> <<"read">>]]

DeclAdmin ==
    [name |-> "Task", tableName |-> Undefined, fields |-> <<TitleField>>,
     ownerField |-> "ownerId",
     rbac |-> [Manager |-> <<"all">>, Viewer |-> <<"update", "delete">>]]

DeclPlain ==
    [name |-> "Task", tableName |-> Undefined, fields |-> <<TitleField>>,
     ownerField |-> Undefined,
     rbac |-> [Manager |-> <<"create", "read", "update">>, Viewer |-> <<>>]]

Declarations == {DeclOwned, DeclAdmin, DeclPlain}

\* Declarations under other names: one that differs from Task only in
\* letter case, another model, and one whose name is the empty string.
DeclLower == [DeclPlain EXCEPT !.name = "task"]

DeclNote == [DeclPlain EXCEPT !.name = "Note"]

DeclNameless == [DeclPlain EXCEPT !.name = ""]

\* A declaration with a field named like its ownerField.
DeclClash == [DeclOwned EXCEPT !.fields = <<[TitleField EXCEPT !.name = "ownerId"]>>]

\* A declaration that names its table.
DeclTabled == [DeclOwned EXCEPT !.name = "Note", !.tableName = "memos"]

\* Request bodies of create and update.
Payloads ==
    {<<>>,
     [title |-> "a"],
     [title |-> "b", ownerId |-> "u2"],
     [id |-> "x", createdAt |-> "t", updatedAt |-> "t"]}

IdleRequest ==
    [pc |-> "idle", modelName |-> "", header |-> Undefined, user |-> Absent,
     op |-> "none", id |-> 0, body |-> <<>>, model |-> Absent,
     existing |-> Absent, data |-> <<>>, status |-> 0, resBody |-> Absent,
     log |-> <<>>]

\* obj with key set to value (obj[key] = value).
Assign(obj, key, value) ==
    [k \in DOMAIN obj \cup {key} |-> IF k = key THEN value ELSE obj[k]]

\* obj restricted to the keys in keep.
Pick(obj, keep) == [k \in DOMAIN obj \cap keep |-> obj[k]]

\* Variant: the owner field is filled in only when the client sent none.
PostData_KeepClientOwner(model, user, body) ==
    LET data == IF ~Falsy(model.ownerField) /\ ~IsAbsent(user)
                   /\ model.ownerField \notin DOMAIN body
                THEN Assign(body, model.ownerField, user.userId)
                ELSE body
    IN Pick(data, DOMAIN data \ {"id", "createdAt", "updatedAt"})

\* POST: the columns and values of the INSERT (crudRoutes.ts:76-85).
PostData(model, user, body) ==
    LET data == IF ~Falsy(model.ownerField) /\ ~IsAbsent(user)
                THEN Assign(body, model.ownerField, user.userId)
                ELSE body
    IN Pick(data, DOMAIN data \ {"id", "createdAt", "updatedAt"})

\* PUT: the columns and values of the SET clause (crudRoutes.ts:125-130).
PutData(body) == Pick(body, DOMAIN body \ {"id", "createdAt", "updatedAt"})

\* res.status(code).json(body): the request is answered.
Respond(r, code, body, events) ==
    [r EXCEPT !.pc = "done", !.status = code, !.resBody = body,
              !.log = r.log \o events]

ModelNotFound == [error |-> "Model not found"]
RecordNotFound == [error |-> "Record not found"]
Forbidden == [error |-> "Insufficient permissions"]
StorageError == [error |-> "storage error"]
TypeErrorBody == [error |-> "permissions.includes is not a function"]

\* A request arrives on a free connection for one of the mounted routers,
\* which createCRUDRoutes bound to its modelName; authenticate answers it
\* or hands it to the route handler.
Receive(c) ==
    /\ reqs[c].pc = "idle"
    /\ \E m \in DOMAIN mounts, header \in AuthHeaders, op \in Ops,
          id \in RecordIds, body \in Payloads :
          LET auth == authenticate(header)
              r == [IdleRequest EXCEPT
                       !.modelName = mounts[m].modelName, !.header = header, !.op = op,
                       !.id = IF op \in {"get", "update", "delete"} THEN id ELSE 0,
                       !.body = IF op \in {"create", "update"} THEN body ELSE <<>>]
          IN /\ op \in {"list", "create"} => id = 1
             /\ op \notin {"create", "update"} => body = <<>>
             /\ reqs' = [reqs EXCEPT ![c] =
                    IF auth.status = 401
                    THEN Respond(r, 401, [error |-> "Unauthorized"], <<>>)
                    ELSE [r EXCEPT !.pc = "load", !.user = auth.user]]
    /\ UNCHANGED <<permCall, models, tables, nextId, now, creator>>
    /\ UNCHANGED platformVars

\* The start of the list, get and create handlers: load the declaration,
\* check the role's permission, issue the statement.
LoadAndCheck(c, op, permission, nextPc) ==
    LET r == reqs[c]
        model == loadModelDefinition(r.modelName)
        allowed == checkPermission([user |-> r.user], model, permission, Absent)
    IN /\ r.pc = "load"
       /\ r.op = op
       /\ reqs' = [reqs EXCEPT ![c] =
              IF IsAbsent(model) THEN Respond(r, 404, ModelNotFound, <<"load">>)
              ELSE IF allowed = "TypeError"
                   THEN Respond([r EXCEPT !.model = model], 500, TypeErrorBody,
                                <<"load", "check">>)
              ELSE IF allowed = "false"
                   THEN Respond([r EXCEPT !.model = model], 403, Forbidden,
                                <<"load", "check">>)
              ELSE [r EXCEPT !.pc = nextPc, !.model = model,
                             !.data = IF op = "create"
                                      THEN PostData(model, r.user, r.body) ELSE <<>>,
                             !.log = r.log \o <<"load", "check">>]]
       /\ UNCHANGED <<permCall, models, tables, nextId, now, creator>>
       /\ UNCHANGED platformVars

ListLoad(c) == LoadAndCheck(c, "list", "read", "select")

GetLoad(c) == LoadAndCheck(c, "get", "read", "select")

PostLoad(c) == LoadAndCheck(c, "create", "create", "insert")

\* GET /: the SELECT ... ORDER BY "createdAt" DESC completes.
ListSelect(c) ==
    LET r == reqs[c]
        t == TableNameOf(r.model)
    IN /\ r.pc = "select"
       /\ r.op = "list"
       /\ \E dbOk \in BOOLEAN :
             IF dbOk /\ t \in DOMAIN tables
             THEN \E o \in OrderedByCreatedAtDesc(t) :
                     reqs' = [reqs EXCEPT ![c] =
                        Respond(r, 200,
                                [list |-> [i \in DOMAIN o |-> tables[t].rows[o[i]]]],
                                <<"select">>)]
             ELSE reqs' = [reqs EXCEPT ![c] =
                        Respond(r, 500, StorageError, <<"select failed">>)]
       /\ UNCHANGED <<permCall, models, tables, nextId, now, creator>>
       /\ UNCHANGED platformVars

\* GET /:id: the SELECT by id completes.
GetSelect(c) ==
    LET r == reqs[c]
        t == TableNameOf(r.model)
    IN /\ r.pc = "select"
       /\ r.op = "get"
       /\ \E dbOk \in BOOLEAN :
             reqs' = [reqs EXCEPT ![c] =
                IF dbOk /\ t \in DOMAIN tables
                THEN LET record == SelectById(t, r.id)
                     IN IF IsAbsent(record)
                        THEN Respond(r, 404, RecordNotFound, <<"select">>)
                        ELSE Respond(r, 200, record, <<"select">>)
                ELSE Respond(r, 500, StorageError, <<"select failed">>)]
       /\ UNCHANGED <<permCall, models, tables, nextId, now, creator>>
       /\ UNCHANGED platformVars

\* Variant: a failed INSERT is issued again.
PostInsert_Retries(c) ==
    LET r == reqs[c]
        t == TableNameOf(r.model)
    IN /\ r.pc = "insert"
       /\ \E dbOk \in BOOLEAN :
             IF dbOk /\ InsertAccepted(t, r.data)
             THEN LET row == InsertedRow(t, r.data, nextId)
                  IN /\ nextId <= MaxRecords
                     /\ tables' = WithRow(t, nextId, row)
                     /\ nextId' = nextId + 1
                     /\ creator' = Assign(creator, nextId, r.user.userId)
                     /\ reqs' = [reqs EXCEPT ![c] = Respond(r, 201, row, <<"insert">>)]
             ELSE /\ reqs' = [reqs EXCEPT ![c] =
                         IF Includes(r.log, "insert failed")
                         THEN Respond(r, 500, StorageError, <<"insert failed">>)
                         ELSE [r EXCEPT !.log = r.log \o <<"insert failed">>]]
                  /\ UNCHANGED <<tables, nextId, creator>>
       /\ UNCHANGED <<permCall, models, now>>
       /\ UNCHANGED platformVars

\* POST /: the INSERT ... RETURNING * completes.
PostInsert(c) ==
    LET r == reqs[c]
        t == TableNameOf(r.model)
    IN /\ r.pc = "insert"
       /\ \E dbOk \in BOOLEAN :
             IF dbOk /\ InsertAccepted(t, r.data)
             THEN LET row == InsertedRow(t, r.data, nextId)
                  IN /\ nextId <= MaxRecords
                     /\ tables' = WithRow(t, nextId, row)
                     /\ nextId' = nextId + 1
                     /\ creator' = Assign(creator, nextId, r.user.userId)
                     /\ reqs' = [reqs EXCEPT ![c] = Respond(r, 201, row, <<"insert">>)]
             ELSE /\ reqs' = [reqs EXCEPT ![c] =
                         Respond(r, 500, StorageError, <<"insert failed">>)]
                  /\ UNCHANGED <<tables, nextId, creator>>
       /\ UNCHANGED <<permCall, models, now>>
       /\ UNCHANGED platformVars


\* The start of the update and delete handlers: load the declaration and
\* issue the SELECT of the existing record.
LoadForFetch(c, op) ==
    LET r == reqs[c]
        model == loadModelDefinition(r.modelName)
    IN /\ r.pc = "load"
       /\ r.op = op
       /\ reqs' = [reqs EXCEPT ![c] =
              IF IsAbsent(model) THEN Respond(r, 404, ModelNotFound, <<"load">>)
              ELSE [r EXCEPT !.pc = "fetch", !.model = model,
                             !.log = r.log \o <<"load">>]]
       /\ UNCHANGED <<permCall, models, tables, nextId, now, creator>>
       /\ UNCHANGED platformVars

PutLoad(c) == LoadForFetch(c, "update")

DeleteLoad(c) == LoadForFetch(c, "delete")

\* Variant: the permission is checked on the role alone, without the
\* fetched record.
FetchDecision_NoRecord(r, permission, existing) ==
    IF IsAbsent(existing) THEN "404"
    ELSE LET allowed == checkPermission([user |-> r.user], r.model, permission, Absent)
         IN IF allowed = "TypeError" THEN "500"
            ELSE IF allowed = "false" THEN "403"
            ELSE "go"

\* Variant: the permission is checked before the record is looked at.
FetchDecision_PermissionFirst(r, permission, existing) ==
    LET allowed == checkPermission([user |-> r.user], r.model, permission, existing)
    IN IF allowed = "TypeError" THEN "500"
       ELSE IF allowed = "false" THEN "403"
       ELSE IF IsAbsent(existing) THEN "404"
       ELSE "go"

\* What update and delete do with the fetched record: 404 when there is
\* none, else the permission check on it (crudRoutes.ts:118-123, 164-170).
FetchDecision(r, permission, existing) ==
    IF IsAbsent(existing) THEN "404"
    ELSE LET allowed == checkPermission([user |-> r.user], r.model, permission, existing)
         IN IF allowed = "TypeError" THEN "500"
            ELSE IF allowed = "false" THEN "403"
            ELSE "go"

\* The SELECT of the existing record completes; the handler decides and,
\* when allowed, issues its write.
FetchExisting(c, op, permission) ==
    LET r == reqs[c]
        t == TableNameOf(r.model)
    IN /\ r.pc = "fetch"
       /\ r.op = op
       /\ \E dbOk \in BOOLEAN :
             reqs' = [reqs EXCEPT ![c] =
                IF dbOk /\ t \in DOMAIN tables
                THEN LET existing == SelectById(t, r.id)
                         decision == FetchDecision(r, permission, existing)
                         fetched == [r EXCEPT !.existing = existing]
                     IN IF decision = "404"
                        THEN Respond(fetched, 404, RecordNotFound, <<"select">>)
                        ELSE IF decision = "500"
                        THEN Respond(fetched, 500, TypeErrorBody, <<"select", "check">>)
                        ELSE IF decision = "403"
                        THEN Respond(fetched, 403, Forbidden, <<"select", "check">>)
                        ELSE [fetched EXCEPT
                                 !.pc = "write",
                                 !.data = IF op = "update" THEN PutData(r.body) ELSE <<>>,
                                 !.log = r.log \o <<"select", "check">>]
                ELSE Respond(r, 500, StorageError, <<"select failed">>)]
       /\ UNCHANGED <<permCall, models, tables, nextId, now, creator>>
       /\ UNCHANGED platformVars

PutFetch(c) == FetchExisting(c, "update", "update")

DeleteFetch(c) == FetchExisting(c, "delete", "delete")

\* PUT /:id: the UPDATE ... RETURNING * completes.  When no row has the id
\* any more the statement returns no row and the body is undefined.  A
\* statement the server rejects (an empty SET list, an unknown column, a
\* violated constraint) and an unreachable server both end in the catch
\* block with 500.
PutUpdate(c) ==
    LET r == reqs[c]
        t == TableNameOf(r.model)
    IN /\ r.pc = "write"
       /\ r.op = "update"
       /\ \E dbOk \in BOOLEAN :
             IF dbOk /\ UpdateAccepted(t, r.id, r.data)
             THEN IF r.id \in DOMAIN tables[t].rows
                  THEN LET row == UpdatedRow(tables[t].rows[r.id], r.data)
                       IN /\ tables' = WithRow(t, r.id, row)
                          /\ reqs' = [reqs EXCEPT ![c] = Respond(r, 200, row, <<"update">>)]
                  ELSE /\ reqs' = [reqs EXCEPT ![c] = Respond(r, 200, Absent, <<"update">>)]
                       /\ UNCHANGED tables
             ELSE /\ reqs' = [reqs EXCEPT ![c] =
                         Respond(r, 500, StorageError,
                                 IF dbOk THEN <<"update rejected">>
                                 ELSE <<"update failed">>)]
                  /\ UNCHANGED tables
       /\ UNCHANGED <<permCall, models, nextId, now, creator>>
       /\ UNCHANGED platformVars

\* Variant: a failed DELETE statement is not caught, and the request is left
\* without an answer.
DeleteExec_FailureUnanswered(c) ==
    LET r == reqs[c]
        t == TableNameOf(r.model)
    IN /\ r.pc = "write"
       /\ r.op = "delete"
       /\ \E dbOk \in BOOLEAN :
             IF dbOk /\ t \in DOMAIN tables
             THEN /\ tables' = WithoutRow(t, r.id)
                  /\ reqs' = [reqs EXCEPT ![c] =
                         Respond(r, 200, [message |-> "Record deleted successfully"],
                                 <<"delete">>)]
             ELSE /\ reqs' = [reqs EXCEPT ![c] =
                         [r EXCEPT !.pc = "unanswered", !.log = r.log \o <<"delete failed">>]]
                  /\ UNCHANGED tables
       /\ UNCHANGED <<permCall, models, nextId, now, creator>>
       /\ UNCHANGED platformVars

\* DELETE /:id: the DELETE statement completes.
DeleteExec(c) ==
    LET r == reqs[c]
        t == TableNameOf(r.model)
    IN /\ r.pc = "write"
       /\ r.op = "delete"
       /\ \E dbOk \in BOOLEAN :
             IF dbOk /\ t \in DOMAIN tables
             THEN /\ tables' = WithoutRow(t, r.id)
                  /\ reqs' = [reqs EXCEPT ![c] =
                         Respond(r, 200, [message |-> "Record deleted successfully"],
                                 <<"delete">>)]
             ELSE /\ reqs' = [reqs EXCEPT ![c] =
                         Respond(r, 500, StorageError, <<"delete failed">>)]
                  /\ UNCHANGED tables
       /\ UNCHANGED <<permCall, models, nextId, now, creator>>
       /\ UNCHANGED platformVars

\* The client has its response; the connection is free for a new request.
Retire(c) ==
    /\ reqs[c].pc = "done"
    /\ reqs' = [reqs EXCEPT ![c] = IdleRequest]
    /\ UNCHANGED <<permCall, models, tables, nextId, now, creator>>
    /\ UNCHANGED platformVars

\* Time passes at the storage server.
Tick ==
    /\ now < MaxTime
    /\ now' = now + 1
    /\ UNCHANGED <<permCall, models, tables, nextId, reqs, creator>>
    /\ UNCHANGED platformVars

\* A published model: its declaration is in the Model Store, its table was
\* created from it and its handler is mounted; no request has arrived yet.
Init ==
    /\ permCall = NoCall
    /\ \E decl \in Declarations :
          /\ models = [f \in {FilePath(decl.name)} |-> JSONStringify(decl)]
          /\ tables = [t \in {TableNameOf(decl)} |-> NewTableFor(decl)]
    /\ nextId = 1
    /\ now = 0
    /\ reqs = [c \in Conns |-> IdleRequest]
    /\ creator = <<>>
    /\ appInstance = "app"
    /\ registeredRoutes = <<"task">>
    /\ mounts = <<[path |-> MountPath("task"), modelName |-> "Task"]>>
    /\ admin = <<>>
    /\ seed = <<>>
    /\ storeCall = <<>>

Next ==
    \/ \E c \in DOMAIN reqs : Receive(c)
    \/ \E c \in DOMAIN reqs : ListLoad(c)
    \/ \E c \in DOMAIN reqs : ListSelect(c)
    \/ \E c \in DOMAIN reqs : GetLoad(c)
    \/ \E c \in DOMAIN reqs : GetSelect(c)
    \/ \E c \in DOMAIN reqs : PostLoad(c)
    \/ \E c \in DOMAIN reqs : PostInsert(c)
    \/ \E c \in DOMAIN reqs : PutLoad(c)
    \/ \E c \in DOMAIN reqs : PutFetch(c)
    \/ \E c \in DOMAIN reqs : PutUpdate(c)
    \/ \E c \in DOMAIN reqs : DeleteLoad(c)
    \/ \E c \in DOMAIN reqs : DeleteFetch(c)
    \/ \E c \in DOMAIN reqs : DeleteExec(c)
    \/ \E c \in DOMAIN reqs : Retire(c)
    \/ Tick

Spec == Init /\ [][Next]_vars

\* The steps of the handler on connection c that follow an await: the
\* completion of a Model Store or storage call and the code up to the next
\* await or the response.
HandlerStep(c) ==
    \/ ListLoad(c) \/ ListSelect(c)
    \/ GetLoad(c) \/ GetSelect(c)
    \/ PostLoad(c) \/ PostInsert(c)
    \/ PutLoad(c) \/ PutFetch(c) \/ PutUpdate(c)
    \/ DeleteLoad(c) \/ DeleteFetch(c) \/ DeleteExec(c)

\* The record handler when every call it awaits eventually returns or
\* fails: the event loop then runs the continuation.
SpecFair == Init /\ [][Next]_vars /\ \A c \in Conns : WF_vars(HandlerStep(c))

\* Two client connections, whose requests the event loop interleaves at
\* their awaits, on the published model Task with ownerField.
RaceConns == {1, 2}

InitRace ==
    /\ permCall = NoCall
    /\ models = StoreOf({DeclOwned})
    /\ tables = TablesOf({DeclOwned})
    /\ nextId = 1
    /\ now = 0
    /\ reqs = [c \in RaceConns |-> IdleRequest]
    /\ creator = <<>>
    /\ appInstance = "app"
    /\ registeredRoutes = <<"task">>
    /\ mounts = <<[path |-> MountPath("task"), modelName |-> "Task"]>>
    /\ admin = <<>>
    /\ seed = <<>>
    /\ storeCall = <<>>

SpecRace == InitRace /\ [][Next]_vars

(***************************************************************************)
(* A caller of the Model Store functions, one call after the other         *)
(***************************************************************************)
\* The declarations the caller saves.
StoreDecls == {DeclOwned, DeclPlain, DeclLower, DeclNote}

\* A completed call: the function, its argument, what it returned or that
\* it threw, whether its metadata statement failed, and the models
\* directory before it.
NoStoreCall ==
    [fn |-> "none", name |-> "", decl |-> Absent, result |-> Absent, list |-> <<>>,
     outcome |-> "none", db |-> "none", before |-> <<>>]

\* The caller's record after call: the last call and the one before it.
AfterCall(call) == [last |-> call, prev |-> storeCall.last]

\* Variant: when the metadata upsert fails the file is put back as it was.
CallSave_RollsBack ==
    \E d \in StoreDecls, fsOk \in BOOLEAN, dbOk \in BOOLEAN :
        /\ ~fsOk => dbOk
        /\ models' = IF fsOk /\ dbOk
                     THEN WithFile(models, FilePath(d.name), JSONStringify(d))
                     ELSE models
        /\ storeCall' = AfterCall([NoStoreCall EXCEPT
                            !.fn = "save", !.name = d.name, !.decl = d,
                            !.outcome = IF fsOk /\ dbOk THEN "ok" ELSE "threw",
                            !.db = IF ~fsOk THEN "none" ELSE IF dbOk THEN "ok" ELSE "failed",
                            !.before = models])
        /\ UNCHANGED <<tables, appInstance, registeredRoutes, mounts, admin, seed>>
        /\ UNCHANGED handlerVars

\* await saveModelDefinition(d)
CallSave ==
    \E d \in StoreDecls, fsOk \in BOOLEAN, dbOk \in BOOLEAN :
        /\ ~fsOk => dbOk
        /\ models' = IF fsOk THEN WithFile(models, FilePath(d.name), JSONStringify(d))
                     ELSE models
        /\ storeCall' = AfterCall([NoStoreCall EXCEPT
                            !.fn = "save", !.name = d.name, !.decl = d,
                            !.outcome = IF fsOk /\ dbOk THEN "ok" ELSE "threw",
                            !.db = IF ~fsOk THEN "none" ELSE IF dbOk THEN "ok" ELSE "failed",
                            !.before = models])
        /\ UNCHANGED <<tables, appInstance, registeredRoutes, mounts, admin, seed>>
        /\ UNCHANGED handlerVars

\* await loadModelDefinition(n)
CallLoad ==
    \E n \in ModelNames :
        /\ storeCall' = AfterCall([NoStoreCall EXCEPT
                            !.fn = "load", !.name = n,
                            !.result = loadModelDefinition(n),
                            !.outcome = "ok", !.before = models])
        /\ UNCHANGED <<models, tables, appInstance, registeredRoutes, mounts, admin, seed>>
        /\ UNCHANGED handlerVars

\* await listModelDefinitions()
CallList ==
    \E o \in ReaddirOrders(models) :
        /\ storeCall' = AfterCall([NoStoreCall EXCEPT
                            !.fn = "list", !.list = ListLoaded(o),
                            !.outcome = "ok", !.before = models])
        /\ UNCHANGED <<models, tables, appInstance, registeredRoutes, mounts, admin, seed>>
        /\ UNCHANGED handlerVars

\* await deleteModelDefinition(n)
CallDelete ==
    \E n \in ModelNames, dbOk \in BOOLEAN :
        /\ models' = WithoutFile(models, FilePath(n))
        /\ storeCall' = AfterCall([NoStoreCall EXCEPT
                            !.fn = "delete", !.name = n,
                            !.outcome = IF dbOk THEN "ok" ELSE "threw",
                            !.db = IF dbOk THEN "ok" ELSE "failed",
                            !.before = models])
        /\ UNCHANGED <<tables, appInstance, registeredRoutes, mounts, admin, seed>>
        /\ UNCHANGED handlerVars

InitStore ==
    /\ \E decls \in {{}, {DeclOwned}, {DeclPlain, DeclNote}} : models = StoreOf(decls)
    /\ storeCall = [last |-> NoStoreCall, prev |-> NoStoreCall]
    /\ tables = <<>>
    /\ appInstance = "null"
    /\ registeredRoutes = <<>>
    /\ mounts = <<>>
    /\ admin = <<>>
    /\ seed = <<>>
    /\ permCall = NoCall
    /\ nextId = 1
    /\ now = 0
    /\ reqs = <<>>
    /\ creator = <<>>

NextStore ==
    \/ CallSave
    \/ CallLoad
    \/ CallList
    \/ CallDelete

SpecStore == InitStore /\ [][NextStore]_vars

(***************************************************************************)
(* Model administration surface: routes/modelRoutes (README.md:977-1061)   *)
(* and the start of the process (index.ts, src/unnamed/part_006)           *)
(***************************************************************************)
\* The administrator connections, and the number of requests they send in
\* all.
AdminConns == {1, 2}

MaxAdminRequests == 2

AdminOps == {"save", "publish", "delete"}

\* Authorization headers on the administration surface: none, the Admin's
\* token, a Manager's token.
AdminHeaders == {Undefined, "Bearer tokAdmin", "Bearer tokU1"}

\* Request bodies of POST /api/models.
SaveBodies == {DeclOwned, DeclPlain, DeclLower, DeclNote, DeclNameless, DeclClash}

IdleAdmin ==
    [pc |-> "idle", op |-> "none", header |-> Undefined, user |-> Absent,
     modelName |-> "", body |-> <<>>, model |-> Absent, status |-> 0, log |-> <<>>,
     issued |-> 0]

\* The number of requests sent so far on the connections conns.
RECURSIVE Issued(_)
Issued(conns) ==
    IF conns = {} THEN 0
    ELSE LET a == CHOOSE c \in conns : TRUE
         IN admin[a].issued + Issued(conns \ {a})

\* !model.name || !model.fields || !Array.isArray(model.fields)
InvalidModel(body) ==
    \/ "name" \notin DOMAIN body
    \/ Falsy(body.name)
    \/ "fields" \notin DOMAIN body

\* res.status(code).json(...) on the administration surface.
AdminRespond(r, code, events) ==
    [r EXCEPT !.pc = "done", !.status = code, !.log = r.log \o events]

\* A request arrives at /api/models while the server listens: authenticate
\* and requireRole('Admin') answer it or hand it to the route, which runs to
\* its first await.
AdminReceive(a) ==
    /\ admin[a].pc = "idle"
    /\ seed.pc # "boot"
    /\ Issued(DOMAIN admin) < MaxAdminRequests
    /\ \E header \in AdminHeaders, op \in AdminOps, name \in ModelNames, body \in SaveBodies :
          LET auth == authenticate(header)
              role == requireRole(<<"Admin">>, auth.user)
              r == [IdleAdmin EXCEPT
                       !.issued = admin[a].issued + 1,
                       !.op = op, !.header = header, !.user = auth.user,
                       !.modelName = IF op = "save" THEN "" ELSE name,
                       !.body = IF op = "save" THEN body ELSE <<>>]
          IN /\ op = "save" => name = "Task"
             /\ op # "save" => body = DeclPlain
             /\ admin' = [admin EXCEPT ![a] =
                    IF auth.status = 401 THEN AdminRespond(r, 401, <<>>)
                    ELSE IF role # 0 THEN AdminRespond(r, role, <<>>)
                    ELSE IF op = "save"
                         THEN IF InvalidModel(body) THEN AdminRespond(r, 400, <<>>)
                              ELSE [r EXCEPT !.pc = "writeFile"]
                    ELSE IF op = "publish" THEN [r EXCEPT !.pc = "load"]
                    ELSE [r EXCEPT !.pc = "unlink"]]
    /\ UNCHANGED <<models, tables, appInstance, registeredRoutes, mounts, seed, storeCall>>
    /\ UNCHANGED handlerVars

\* saveModelDefinition: fs.writeFile completes.
SaveWriteFile(a) ==
    LET r == admin[a]
    IN /\ r.pc = "writeFile"
       /\ \E fsOk \in BOOLEAN :
             IF fsOk
             THEN /\ models' = WithFile(models, FilePath(r.body.name), JSONStringify(r.body))
                  /\ admin' = [admin EXCEPT ![a] =
                         [r EXCEPT !.pc = "upsert", !.log = r.log \o <<"writeFile">>]]
             ELSE /\ admin' = [admin EXCEPT ![a] = AdminRespond(r, 500, <<"writeFile failed">>)]
                  /\ UNCHANGED models
       /\ UNCHANGED <<tables, appInstance, registeredRoutes, mounts, seed, storeCall>>
       /\ UNCHANGED handlerVars

\* saveModelDefinition: prisma.modelDefinition.upsert completes; the route
\* answers.
SaveUpsert(a) ==
    LET r == admin[a]
    IN /\ r.pc = "upsert"
       /\ \E dbOk \in BOOLEAN :
             admin' = [admin EXCEPT ![a] =
                 IF dbOk THEN AdminRespond(r, 200, <<"upsert">>)
                 ELSE AdminRespond(r, 500, <<"upsert failed">>)]
       /\ UNCHANGED <<models, tables, appInstance, registeredRoutes, mounts, seed, storeCall>>
       /\ UNCHANGED handlerVars

\* POST /:modelName/publish: loadModelDefinition completes.
PublishLoad(a) ==
    LET r == admin[a]
        model == loadModelDefinition(r.modelName)
    IN /\ r.pc = "load"
       /\ admin' = [admin EXCEPT ![a] =
              IF IsAbsent(model) THEN AdminRespond(r, 404, <<"load">>)
              ELSE [r EXCEPT !.pc = "createTable", !.model = model,
                             !.log = r.log \o <<"load">>]]
       /\ UNCHANGED <<models, tables, appInstance, registeredRoutes, mounts, seed, storeCall>>
       /\ UNCHANGED handlerVars

\* Variant: the routes are registered whether or not the table was created.
PublishCreateTable_RegistersOnFailure(a) ==
    LET r == admin[a]
        reg == registerModelRoutes(Registry, r.model.name)
    IN /\ r.pc = "createTable"
       /\ appInstance' = reg.appInstance
       /\ registeredRoutes' = reg.registeredRoutes
       /\ mounts' = reg.mounts
       /\ \E dbOk \in BOOLEAN :
             IF dbOk /\ CreateAccepted(r.model)
             THEN /\ tables' = createTableForModel(r.model)
                  /\ admin' = [admin EXCEPT ![a] =
                         AdminRespond(r, 200, <<"createTable", "register">>)]
             ELSE /\ admin' = [admin EXCEPT ![a] =
                         AdminRespond(r, 500, <<"createTable failed">>)]
                  /\ UNCHANGED tables
       /\ UNCHANGED <<models, seed, storeCall>>
       /\ UNCHANGED handlerVars

\* POST /:modelName/publish: createTableForModel completes (its statement
\* fails when the server is unreachable or rejects it); on success the route
\* registers the model's routes and answers, without awaiting again.
PublishCreateTable(a) ==
    LET r == admin[a]
        reg == registerModelRoutes(Registry, r.model.name)
    IN /\ r.pc = "createTable"
       /\ \E dbOk \in BOOLEAN :
             IF dbOk /\ CreateAccepted(r.model)
             THEN /\ tables' = createTableForModel(r.model)
                  /\ appInstance' = reg.appInstance
                  /\ registeredRoutes' = reg.registeredRoutes
                  /\ mounts' = reg.mounts
                  /\ admin' = [admin EXCEPT ![a] =
                         IF reg.threw
                         THEN AdminRespond(r, 500, <<"createTable", "register threw">>)
                         ELSE AdminRespond(r, 200, <<"createTable", "register">>)]
             ELSE /\ admin' = [admin EXCEPT ![a] =
                         AdminRespond(r, 500, <<"createTable failed">>)]
                  /\ UNCHANGED <<tables, appInstance, registeredRoutes, mounts>>
       /\ UNCHANGED <<models, seed, storeCall>>
       /\ UNCHANGED handlerVars

\* Variant: deleting a declaration also takes its name out of the registry
\* and its router off the app.
DeleteUnlink_Unregisters(a) ==
    LET r == admin[a]
        k == toLowerCase(r.modelName)
    IN /\ r.pc = "unlink"
       /\ models' = WithoutFile(models, FilePath(r.modelName))
       /\ registeredRoutes' = SelectSeq(registeredRoutes, LAMBDA x : x # k)
       /\ mounts' = SelectSeq(mounts, LAMBDA m : m.path # MountPath(k))
       /\ admin' = [admin EXCEPT ![a] =
              [r EXCEPT !.pc = "deleteMany", !.log = r.log \o <<"unlink">>]]
       /\ UNCHANGED <<tables, appInstance, seed, storeCall>>
       /\ UNCHANGED handlerVars

\* deleteModelDefinition: fs.unlink completes; a failure is ignored.
DeleteUnlink(a) ==
    LET r == admin[a]
    IN /\ r.pc = "unlink"
       /\ models' = WithoutFile(models, FilePath(r.modelName))
       /\ admin' = [admin EXCEPT ![a] =
              [r EXCEPT !.pc = "deleteMany", !.log = r.log \o <<"unlink">>]]
       /\ UNCHANGED <<tables, appInstance, registeredRoutes, mounts, seed, storeCall>>
       /\ UNCHANGED handlerVars

\* deleteModelDefinition: prisma.modelDefinition.deleteMany completes; the
\* route answers.
DeleteMany(a) ==
    LET r == admin[a]
    IN /\ r.pc = "deleteMany"
       /\ \E dbOk \in BOOLEAN :
             admin' = [admin EXCEPT ![a] =
                 IF dbOk THEN AdminRespond(r, 200, <<"deleteMany">>)
                 ELSE AdminRespond(r, 500, <<"deleteMany failed">>)]
       /\ UNCHANGED <<models, tables, appInstance, registeredRoutes, mounts, seed, storeCall>>
       /\ UNCHANGED handlerVars

\* The administrator has the response; the connection is free again.
AdminRetire(a) ==
    /\ admin[a].pc = "done"
    /\ admin' = [admin EXCEPT ![a] = [IdleAdmin EXCEPT !.issued = admin[a].issued]]
    /\ UNCHANGED <<models, tables, appInstance, registeredRoutes, mounts, seed, storeCall>>
    /\ UNCHANGED handlerVars

\* index.ts runs: initializeRouteRegistry(app), registerCRUDRoutes() up to
\* its first await, app.listen.
Boot ==
    /\ seed.pc = "boot"
    /\ appInstance' = "app"
    /\ seed' = [seed EXCEPT !.pc = "readdir"]
    /\ UNCHANGED <<models, tables, registeredRoutes, mounts, admin, storeCall>>
    /\ UNCHANGED handlerVars

\* listModelDefinitions: fs.readdir completes (ensureModelsDirectory has
\* made sure the directory is there, so the listing succeeds).  seed.missing
\* keeps the startup files the listing did not show.
SeedReaddir ==
    /\ seed.pc = "readdir"
    /\ \E o \in ReaddirOrders(models) :
          seed' = [seed EXCEPT
                      !.pc = IF o = <<>> THEN "register" ELSE "load",
                      !.files = o,
                      !.missing = {FilePath(d.name) : d \in seed.startup} \ DOMAIN models]
    /\ UNCHANGED <<models, tables, appInstance, registeredRoutes, mounts, admin, storeCall>>
    /\ UNCHANGED handlerVars

\* listModelDefinitions: the load of the next file completes.  (seed.missing
\* keeps the files that were gone when their load came.)
SeedLoad ==
    LET file == Head(seed.files)
        model == loadModelDefinition(ReplaceJson(file))
    IN /\ seed.pc = "load"
       /\ seed' = [seed EXCEPT
                      !.pc = IF Tail(seed.files) = <<>> THEN "register" ELSE "load",
                      !.files = Tail(seed.files),
                      !.list = IF IsAbsent(model) THEN seed.list
                               ELSE Append(seed.list, model),
                      !.missing = IF IsAbsent(model) THEN seed.missing \cup {file}
                                  ELSE seed.missing]
       /\ UNCHANGED <<models, tables, appInstance, registeredRoutes, mounts, admin, storeCall>>
       /\ UNCHANGED handlerVars

\* Variant: the seeding loop registers nothing.
SeedRegister_Nothing ==
    /\ seed.pc = "register"
    /\ seed' = [seed EXCEPT !.pc = "done"]
    /\ UNCHANGED <<models, tables, appInstance, registeredRoutes, mounts, admin, storeCall>>
    /\ UNCHANGED handlerVars

\* registerCRUDRoutes: the loop over the listed declarations.
SeedRegister ==
    LET reg == RegisterEach(Registry, seed.list)
    IN /\ seed.pc = "register"
       /\ appInstance' = reg.appInstance
       /\ registeredRoutes' = reg.registeredRoutes
       /\ mounts' = reg.mounts
       /\ seed' = [seed EXCEPT !.pc = "done"]
       /\ UNCHANGED <<models, tables, admin, storeCall>>
       /\ UNCHANGED handlerVars

\* What a process finds when it starts: the declarations saved by earlier
\* processes, of which none or one was published.
StartupDecls == {{}, {DeclOwned}, {DeclOwned, DeclLower}, {DeclPlain, DeclNote}}

SeedStart == [pc |-> "boot", files |-> <<>>, list |-> <<>>, startup |-> {},
              missing |-> {}]

InitReg ==
    /\ \E decls \in StartupDecls : \E published \in SUBSET decls :
          /\ Cardinality(published) <= 1
          /\ models = StoreOf(decls)
          /\ tables = TablesOf(published)
          /\ seed = [SeedStart EXCEPT !.startup = decls]
    /\ appInstance = "null"
    /\ registeredRoutes = <<>>
    /\ mounts = <<>>
    /\ admin = [a \in AdminConns |-> IdleAdmin]
    /\ storeCall = <<>>
    /\ permCall = NoCall
    /\ nextId = 1
    /\ now = 0
    /\ reqs = <<>>
    /\ creator = <<>>

NextReg ==
    \/ Boot
    \/ SeedReaddir
    \/ SeedLoad
    \/ SeedRegister
    \/ \E a \in DOMAIN admin : AdminReceive(a)
    \/ \E a \in DOMAIN admin : SaveWriteFile(a)
    \/ \E a \in DOMAIN admin : SaveUpsert(a)
    \/ \E a \in DOMAIN admin : PublishLoad(a)
    \/ \E a \in DOMAIN admin : PublishCreateTable(a)
    \/ \E a \in DOMAIN admin : DeleteUnlink(a)
    \/ \E a \in DOMAIN admin : DeleteMany(a)
    \/ \E a \in DOMAIN admin : AdminRetire(a)

SpecReg == InitReg /\ [][NextReg]_vars

(***************************************************************************)
(* The whole process with one client at a time: administration and record  *)
(* requests on the models the process serves                               *)
(***************************************************************************)
\* The client sends a record request when no administration request is
\* under way.
ClientRecordRequest(c) ==
    /\ \A a \in DOMAIN admin : admin[a].pc = "idle"
    /\ Receive(c)

\* The client sends an administration request when no record request is
\* under way.
ClientAdminRequest(a) ==
    /\ \A c \in DOMAIN reqs : reqs[c].pc = "idle"
    /\ AdminReceive(a)

\* What the process finds when it starts: one declaration, published by an
\* earlier process, or one that names its table and was saved but not yet
\* published.
LiveStartups == {[decls |-> {DeclOwned}, published |-> {DeclOwned}],
                 [decls |-> {DeclTabled}, published |-> {}]}

InitLive ==
    /\ \E start \in LiveStartups :
          /\ models = StoreOf(start.decls)
          /\ tables = TablesOf(start.published)
          /\ seed = [SeedStart EXCEPT !.startup = start.decls]
    /\ appInstance = "null"
    /\ registeredRoutes = <<>>
    /\ mounts = <<>>
    /\ admin = [a \in {1} |-> IdleAdmin]
    /\ storeCall = <<>>
    /\ permCall = NoCall
    /\ nextId = 1
    /\ now = 0
    /\ reqs = [c \in Conns |-> IdleRequest]
    /\ creator = <<>>

NextLive ==
    \/ Boot
    \/ SeedReaddir
    \/ SeedLoad
    \/ SeedRegister
    \/ \E a \in DOMAIN admin : ClientAdminRequest(a)
    \/ \E a \in DOMAIN admin : SaveWriteFile(a)
    \/ \E a \in DOMAIN admin : SaveUpsert(a)
    \/ \E a \in DOMAIN admin : PublishLoad(a)
    \/ \E a \in DOMAIN admin : PublishCreateTable(a)
    \/ \E a \in DOMAIN admin : DeleteUnlink(a)
    \/ \E a \in DOMAIN admin : DeleteMany(a)
    \/ \E a \in DOMAIN admin : AdminRetire(a)
    \/ \E c \in DOMAIN reqs : ClientRecordRequest(c)
    \/ \E c \in DOMAIN reqs : ListLoad(c)
    \/ \E c \in DOMAIN reqs : ListSelect(c)
    \/ \E c \in DOMAIN reqs : GetLoad(c)
    \/ \E c \in DOMAIN reqs : GetSelect(c)
    \/ \E c \in DOMAIN reqs : PostLoad(c)
    \/ \E c \in DOMAIN reqs : PostInsert(c)
    \/ \E c \in DOMAIN reqs : PutLoad(c)
    \/ \E c \in DOMAIN reqs : PutFetch(c)
    \/ \E c \in DOMAIN reqs : PutUpdate(c)
    \/ \E c \in DOMAIN reqs : DeleteLoad(c)
    \/ \E c \in DOMAIN reqs : DeleteFetch(c)
    \/ \E c \in DOMAIN reqs : DeleteExec(c)
    \/ \E c \in DOMAIN reqs : Retire(c)
    \/ Tick

SpecLive == InitLive /\ [][NextLive]_vars

(***************************************************************************)
(* Claims about checkPermission (checked under SpecPerm)                   *)
(***************************************************************************)
PermCalled == permCall.result \notin {"none", "pending"}
PermHasUser == ~IsAbsent(permCall.req.user)
PermHasEntry == PermHasUser /\ permCall.req.user.role \in DOMAIN permCall.model.rbac
PermEntry == permCall.model.rbac[permCall.req.user.role]
PermHasOwnerField == ~Falsy(permCall.model.ownerField)
PermHasRecord == ~IsAbsent(permCall.record)
PermRecordOwner == Get(permCall.record, permCall.model.ownerField)

\* C1: checkPermission returns false for every operation, with or without a
\* record, when there is no authenticated user, or the policy has no entry
\* for the user's role, or that entry is the empty list.
C1_DenyWithoutGrant ==
    (PermCalled /\ (~PermHasUser \/ ~PermHasEntry \/ PermEntry = <<>>))
        => permCall.result = "false"

\* C2: a role whose policy entry contains 'all' gets true for every
\* operation and every record argument, with or without an ownerField.
C2_AllOverrides ==
    (PermCalled /\ PermHasEntry /\ Includes(PermEntry, "all"))
        => permCall.result = "true"

C2_Witness ==
    /\ PermCalled /\ PermHasEntry /\ Includes(PermEntry, "all")
    /\ permCall.permission = "delete"
    /\ PermHasOwnerField /\ PermHasRecord
    /\ PermRecordOwner = "u2" /\ permCall.req.user.userId = "u1"
    /\ permCall.result = "true"

\* C3: with an ownerField f, a role entry that contains the requested
\* update/delete but not 'all', and a supplied record, checkPermission
\* returns true if and only if record[f] equals the acting user's id.
C3_OwnerDecides ==
    (/\ PermCalled /\ PermHasEntry /\ PermHasOwnerField /\ PermHasRecord
     /\ permCall.permission \in {"update", "delete"}
     /\ Includes(PermEntry, permCall.permission)
     /\ ~Includes(PermEntry, "all"))
        => (permCall.result = "true" <=> PermRecordOwner = permCall.req.user.userId)
           /\ permCall.result \in {"true", "false"}

C3_Witness ==
    /\ PermCalled /\ PermHasEntry /\ PermHasOwnerField /\ PermHasRecord
    /\ permCall.permission = "update"
    /\ Includes(PermEntry, "update") /\ ~Includes(PermEntry, "all")
    /\ PermRecordOwner = "u2" /\ permCall.req.user.userId = "u1"
    /\ permCall.result = "false"

\* C4: with an ownerField and no record (pre-check) on update or delete,
\* checkPermission returns true whenever the role's entry contains that
\* operation, and false when the entry contains neither it nor 'all'.
C4_PreCheckByRoleAlone ==
    (/\ PermCalled /\ PermHasEntry /\ PermHasOwnerField /\ ~PermHasRecord
     /\ permCall.permission \in {"update", "delete"})
        => /\ Includes(PermEntry, permCall.permission) => permCall.result = "true"
           /\ (~Includes(PermEntry, permCall.permission) /\ ~Includes(PermEntry, "all"))
                  => permCall.result = "false"

C4_Witness ==
    /\ PermCalled /\ PermHasEntry /\ PermHasOwnerField /\ ~PermHasRecord
    /\ permCall.permission = "update"
    /\ Includes(PermEntry, "update") /\ ~Includes(PermEntry, "all")
    /\ permCall.result = "true"

\* C5: for create and read (any ownerField, any record), and for update and
\* delete on a model without ownerField, a role without 'all' gets true
\* exactly when its policy entry contains the requested operation; neither
\* the record nor the actor's id affects the result.
C5_RoleAloneDecides ==
    (/\ PermCalled /\ PermHasUser
     /\ ~(PermHasEntry /\ Includes(PermEntry, "all"))
     /\ (permCall.permission \in {"create", "read"} \/ ~PermHasOwnerField))
        => (permCall.result = "true"
               <=> (PermHasEntry /\ Includes(PermEntry, permCall.permission)))

C5_Witness ==
    /\ PermCalled /\ PermHasEntry /\ PermHasOwnerField /\ PermHasRecord
    /\ permCall.permission = "read"
    /\ Includes(PermEntry, "read") /\ ~Includes(PermEntry, "all")
    /\ PermRecordOwner = "u2" /\ permCall.req.user.userId = "u1"
    /\ permCall.result = "true"

(***************************************************************************)
(* Claims about the record handler (checked under Spec)                    *)
(***************************************************************************)
WriteEvents == {"insert", "update", "delete", "insert failed", "update failed",
                "update rejected", "delete failed"}

StorageEvents == WriteEvents \cup {"select", "select failed"}

Logged(r, events) == \E i \in 1..Len(r.log) : r.log[i] \in events

\* The role of the request's actor holds permission in the loaded
\* declaration and does not hold 'all'.
HoldsWithoutAll(r, permission) ==
    /\ ~IsAbsent(r.user)
    /\ ~IsAbsent(r.model)
    /\ r.user.role \in DOMAIN r.model.rbac
    /\ Includes(r.model.rbac[r.user.role], permission)
    /\ ~Includes(r.model.rbac[r.user.role], "all")

\* The request fetched an existing record that its actor does not own.
FetchedForeignRecord(r) ==
    /\ ~IsAbsent(r.model)
    /\ ~Falsy(r.model.ownerField)
    /\ ~IsAbsent(r.existing)
    /\ Get(r.existing, r.model.ownerField) # r.user.userId

\* C6: with ownerField f, an update (delete) by an actor whose role holds
\* update (delete) but not 'all', on an existing record whose f differs from
\* the actor's id, is answered 403 and the stored record is left as it was.
C6_ForeignRecordRefused ==
    \A c \in DOMAIN reqs :
        LET r == reqs[c]
        IN (/\ r.op \in {"update", "delete"}
            /\ HoldsWithoutAll(r, r.op)
            /\ FetchedForeignRecord(r))
               => /\ r.pc = "done"
                  /\ r.status = 403
                  /\ ~Logged(r, WriteEvents)
                  /\ SelectById(TableNameOf(r.model), r.id) = r.existing

C6_Witness ==
    \E c \in DOMAIN reqs :
        LET r == reqs[c]
        IN /\ r.op = "update"
           /\ r.body = [title |-> "a"]
           /\ HoldsWithoutAll(r, "update")
           /\ FetchedForeignRecord(r)
           /\ r.status = 403

\* C7: on create against a model with ownerField f, the inserted record's f
\* is the authenticated actor's id for every payload, also one that supplies
\* another value for f.
C7_OwnerIsActorOnCreate ==
    \A c \in DOMAIN reqs :
        LET r == reqs[c]
        IN (r.op = "create" /\ r.status = 201 /\ ~Falsy(r.model.ownerField))
               => /\ r.resBody[r.model.ownerField] = r.user.userId
                  /\ SelectById(TableNameOf(r.model), r.resBody.id) = r.resBody

C7_Witness ==
    \E c \in DOMAIN reqs :
        LET r == reqs[c]
        IN /\ r.op = "create" /\ r.status = 201
           /\ r.model.ownerField = "ownerId"
           /\ r.body = [title |-> "b", ownerId |-> "u2"]
           /\ r.user.userId = "u1"
           /\ r.resBody.ownerId = "u1"

\* C8: with ownerField f, in every reachable state each stored record's f is
\* the id of the actor that created it; no client-supplied value for f is
\* ever stored.
C8_OwnerIsCreator ==
    \A f \in DOMAIN models :
        LET model == JSONParse(models[f])
            t == TableNameOf(model)
        IN ~Falsy(model.ownerField) =>
               \A id \in DOMAIN tables[t].rows :
                   tables[t].rows[id][model.ownerField] = creator[id]

\* The response of a get, update or delete that reached a declaration.
AnsweredById(r) ==
    /\ r.pc = "done"
    /\ r.op \in {"get", "update", "delete"}
    /\ ~IsAbsent(r.model)

\* C9 as stated: for get, update and delete on an existing declaration, a
\* request for an id no record has is answered 404 even if the role would
\* be denied, and 403 is returned only when the record exists.  (Storage is
\* not written between a response and the retirement of its request, so the
\* table is the one the response was computed on.)
C9_NotFoundBeforeDenied ==
    \A c \in DOMAIN reqs :
        LET r == reqs[c]
            t == TableNameOf(r.model)
        IN AnsweredById(r) =>
               /\ r.status = 403 => r.id \in DOMAIN tables[t].rows
               /\ (r.id \notin DOMAIN tables[t].rows /\ r.status # 500) => r.status = 404

\* C9 amended: update and delete fetch first: when the fetch finds no record
\* the answer is 404 whatever the role, and 403 is given only for a record
\* that was found.  get checks the role first: a role denied read is
\* answered 403 without any storage access, whether or not the record
\* exists, and 404 is given only to a role allowed to read.
C9_FetchFirstOnlyForWrites ==
    \A c \in DOMAIN reqs :
        LET r == reqs[c]
            denied == checkPermission([user |-> r.user], r.model, "read", Absent) = "false"
        IN AnsweredById(r) =>
               /\ r.op \in {"update", "delete"} =>
                      /\ r.status = 403 => ~IsAbsent(r.existing)
                      /\ (Logged(r, {"select"}) /\ IsAbsent(r.existing)) => r.status = 404
               /\ r.op = "get" =>
                      /\ denied => (r.status = 403 /\ ~Logged(r, StorageEvents))
                      /\ r.status \in {403, 404} => (r.status = 403 <=> denied)

C9_Witness ==
    \E c \in DOMAIN reqs :
        LET r == reqs[c]
        IN /\ AnsweredById(r)
           /\ r.op = "delete"
           /\ r.user.role = "Viewer"
           /\ r.model = DeclOwned
           /\ IsAbsent(r.existing)
           /\ r.status = 404

\* The header carries no credential, or one that does not verify.
NoValidCredential(header) ==
    \/ Falsy(BearerToken(header))
    \/ BearerToken(header) \notin DOMAIN IssuedTokens

\* C10: a request to a record endpoint without a valid credential is
\* answered 401 by authenticate; the declaration is not loaded,
\* checkPermission is not evaluated and no storage operation is issued.
C10_UnauthenticatedStopsAtDoor ==
    \A c \in DOMAIN reqs :
        LET r == reqs[c]
        IN (r.pc # "idle" /\ NoValidCredential(r.header))
               => /\ r.pc = "done"
                  /\ r.status = 401
                  /\ r.log = <<>>
                  /\ IsAbsent(r.model)
                  /\ IsAbsent(r.user)

C10_Witness ==
    \E c \in DOMAIN reqs :
        LET r == reqs[c]
        IN /\ r.op = "delete"
           /\ r.header = "Bearer forged"
           /\ r.id \in DOMAIN tables["tasks"].rows
           /\ r.status = 401

ReservedFields == {"id", "createdAt", "updatedAt"}

\* C11: an update that passed the permission check on the existing record,
\* for every payload (also one that names only reserved fields), keeps the
\* record's id and createdAt, sets each non-reserved field the payload names
\* to the payload's value, keeps every other field, refreshes updatedAt and
\* returns the updated record.  (Stated for payloads whose non-reserved
\* fields are columns of the table and a storage server that is reachable.)
C11_UpdateFrame ==
    \A c \in DOMAIN reqs :
        LET r == reqs[c]
            t == TableNameOf(r.model)
            e == r.existing
            p == r.body
            u == r.resBody
        IN (/\ r.op = "update"
            /\ r.pc = "done"
            /\ Logged(r, {"update", "update rejected"})
            /\ DOMAIN p \ ReservedFields \subseteq tables[t].columns)
               => /\ r.status = 200
                  /\ u.id = e.id
                  /\ u.createdAt = e.createdAt
                  /\ \A k \in DOMAIN p \ ReservedFields : u[k] = p[k]
                  /\ \A k \in DOMAIN e \ (DOMAIN p \cup ReservedFields) : u[k] = e[k]
                  /\ u.updatedAt \in e.updatedAt..now
                  /\ SelectById(t, r.id) = u

\* The statements of a request that the storage server failed or rejected.
FailedEvents == {"select failed", "insert failed", "update failed",
                 "update rejected", "delete failed"}

FailuresOf(r) == {i \in 1..Len(r.log) : r.log[i] \in FailedEvents}

\* C23: a list, get, create, update or delete request one of whose storage
\* statements failed is answered 500 by the step on which the statement
\* failed; that statement is the only failed one and the last thing the
\* request did (it is not issued again); and a request that was answered
\* is not answered a second time.
C23_FailureAnsweredOnce ==
    [][\A c \in DOMAIN reqs :
          LET r == reqs[c]
              after == reqs'[c]
          IN /\ FailuresOf(after) # {} =>
                    /\ after.pc = "done"
                    /\ after.status = 500
                    /\ FailuresOf(after) = {Len(after.log)}
             /\ r.pc = "done" => after \in {r, IdleRequest}]_vars

\* The INSERT of a create failed: the request is answered 500 and no record
\* was stored.
C23_Witness ==
    \E c \in DOMAIN reqs :
        /\ reqs[c].op = "create"
        /\ reqs[c].log = <<"load", "check", "insert failed">>
        /\ reqs[c].status = 500
        /\ tables["tasks"].rows = <<>>

ResponseStatuses == {200, 201, 401, 403, 404, 500}

\* C24: provided each Model Store and storage call a request awaits
\* eventually returns or fails, every request to a record endpoint is
\* eventually answered, with a status in {200, 201, 401, 403, 404, 500}, and
\* it is answered once: the answer stands until the connection is reused.
C24_EveryRequestAnswered ==
    /\ \A c \in Conns :
          (reqs[c].pc # "idle") ~>
              (reqs[c].pc = "done" /\ reqs[c].status \in ResponseStatuses)
    /\ [][\A c \in Conns :
             /\ reqs'[c].pc = "done" => reqs'[c].status \in ResponseStatuses
             /\ reqs[c].pc = "done" => reqs'[c] \in {reqs[c], IdleRequest}]_vars

\* A delete went through its three awaits (load, select, delete) and was
\* answered 200.
C24_Witness ==
    \E c \in DOMAIN reqs :
        /\ reqs[c].op = "delete"
        /\ reqs[c].log = <<"load", "select", "check", "delete">>
        /\ reqs[c].pc = "done"
        /\ reqs[c].status = 200

(***************************************************************************)
(* Claims about concurrent record requests (checked under SpecRace)        *)
(***************************************************************************)
\* The step applies the update or delete of connection c to a stored record
\* of a model with ownerField, for an actor whose role holds the operation
\* without 'all'.
OwnerBoundWriteApplied(c) ==
    LET r == reqs[c]
    IN /\ r.pc = "write"
       /\ reqs'[c].status = 200
       /\ r.id \in DOMAIN tables[TableNameOf(r.model)].rows
       /\ ~Falsy(r.model.ownerField)
       /\ HoldsWithoutAll(r, r.op)

C27_UpdateCarriesRecord ==
    \A c \in DOMAIN reqs :
        LET r == reqs[c]
        IN (r.op = "update" /\ r.pc = "done" /\ r.status = 200) =>
               /\ ~IsAbsent(r.resBody)
               /\ r.resBody.id = r.id

(***************************************************************************)
(* Claims about the registry and the administration surface (SpecReg)      *)
(***************************************************************************)
\* The routers of ms mounted under /api/<k>.
MountsFor(ms, k) == {i \in 1..Len(ms) : ms[i].path = MountPath(k)}

\* The entries of getRegisteredRoutes() equal to k.
EntriesFor(routes, k) == {i \in 1..Len(routes) : routes[i] = k}

\* C12: every call of registerModelRoutes (by a publish, or by the seeding
\* loop) leaves exactly one handler mounted for the name and exactly one
\* entry for it in getRegisteredRoutes(); a call for a name that is already
\* registered changes neither the mounted handlers nor the registered set.
C12_RegisterIdempotent ==
    [][/\ \A a \in DOMAIN admin :
            (admin[a].pc = "createTable" /\ admin'[a].status = 200) =>
                LET k == toLowerCase(admin[a].model.name)
                IN /\ Cardinality(MountsFor(mounts', k)) = 1
                   /\ Cardinality(EntriesFor(registeredRoutes', k)) = 1
                   /\ SetHas(registeredRoutes, k) =>
                          (mounts' = mounts /\ registeredRoutes' = registeredRoutes)
       /\ (seed.pc = "register" /\ seed'.pc = "done") =>
              \A i \in 1..Len(seed.list) :
                  LET k == toLowerCase(seed.list[i].name)
                  IN /\ Cardinality(MountsFor(mounts', k)) = 1
                     /\ Cardinality(EntriesFor(registeredRoutes', k)) = 1
                     /\ SetHas(registeredRoutes, k) =>
                            (/\ \A j \in MountsFor(mounts', k) : j <= Len(mounts)
                             /\ \A j \in EntriesFor(registeredRoutes', k) :
                                    j <= Len(registeredRoutes))]_vars

\* Two publishes of the same name have both registered it.
C12_Witness ==
    /\ \A a \in {1, 2} :
          /\ admin[a].op = "publish"
          /\ admin[a].modelName = "Task"
          /\ admin[a].status = 200
    /\ Cardinality(MountsFor(mounts, "task")) = 1
    /\ getRegisteredRoutes = <<"task">>

\* C13: under every interleaving of concurrent publish requests and startup
\* seeding, at most one handler is mounted for a model name; and every
\* registration that has completed, whatever ran beside it, has left its
\* name registered with one handler under its path.
C13_OneHandlerUnderInterleaving ==
    /\ \A n \in ModelNames : Cardinality(MountsFor(mounts, toLowerCase(n))) <= 1
    /\ \A a \in DOMAIN admin :
          (admin[a].op = "publish" /\ admin[a].status = 200) =>
              /\ isRouteRegistered(admin[a].model.name)
              /\ Cardinality(MountsFor(mounts, toLowerCase(admin[a].model.name))) = 1
    /\ seed.pc = "done" =>
          \A i \in 1..Len(seed.list) :
              /\ isRouteRegistered(seed.list[i].name)
              /\ Cardinality(MountsFor(mounts, toLowerCase(seed.list[i].name))) = 1

\* A publish of Task has registered it while a second publish of Task and
\* the seeding loop, which also lists Task, are still on their way.
C13_Witness ==
    /\ admin[1].op = "publish" /\ admin[1].modelName = "Task" /\ admin[1].status = 200
    /\ admin[2].op = "publish" /\ admin[2].modelName = "Task"
    /\ admin[2].pc = "createTable"
    /\ seed.pc = "register"
    /\ \E i \in 1..Len(seed.list) : seed.list[i].name = "Task"
    /\ Cardinality(MountsFor(mounts, "task")) = 1

\* Seeding has registered declaration d and one handler is mounted under
\* /api/<lowercased name>.
SeededAndMounted(d) ==
    /\ isRouteRegistered(d.name)
    /\ Cardinality(MountsFor(mounts, toLowerCase(d.name))) = 1

\* C15 as stated: when startup seeding has run to completion, every
\* declaration that was in the Model Store at startup is registered and has
\* a live handler mounted under /api/<lowercased name>.
C15_AllStartupDeclarationsSeeded ==
    seed.pc = "done" => \A d \in seed.startup : SeededAndMounted(d)

\* C15 amended: when seeding has run to completion and no startup
\* declaration was gone when seeding listed and loaded it, every declaration
\* that was in the Model Store at startup is registered and mounted; in any
\* case every declaration seeding did load is registered and mounted.
C15_SeededWhenListedAndLoaded ==
    seed.pc = "done" =>
        /\ seed.missing = {} => \A d \in seed.startup : SeededAndMounted(d)
        /\ \A i \in 1..Len(seed.list) : SeededAndMounted(seed.list[i])

\* Seeding has completed on a store of two declarations and no request was
\* ever sent to the administration surface.
C15_Witness ==
    /\ seed.pc = "done"
    /\ seed.startup = {DeclPlain, DeclNote}
    /\ seed.missing = {}
    /\ Issued(DOMAIN admin) = 0
    /\ getRegisteredRoutes \in {<<"task", "note">>, <<"note", "task">>}
    /\ Len(mounts) = 2

\* C19: the step that answers a publish.  A publish of a name with no
\* stored declaration is answered 404 and changes neither the tables nor the
\* registry; one of a stored declaration goes on to the materialization.  A
\* materialization that succeeds is answered 200 with the model registered
\* and its table present; one that fails is answered 500 after that single
\* attempt, and the request changes neither the tables nor the registry.
C19_PublishOutcomes ==
    [][\A a \in DOMAIN admin :
          LET r == admin[a]
              after == admin'[a]
          IN /\ (r.op = "publish" /\ r.pc = "load" /\ after.pc # "load") =>
                    IF IsAbsent(loadModelDefinition(r.modelName))
                    THEN /\ after.pc = "done" /\ after.status = 404
                         /\ after.log = <<"load">>
                         /\ UNCHANGED <<tables, registeredRoutes, mounts>>
                    ELSE after.pc = "createTable"
             /\ (r.op = "publish" /\ r.pc = "createTable" /\ after.pc # "createTable") =>
                    /\ after.pc = "done"
                    /\ after.status \in {200, 500}
                    /\ after.status = 200 =>
                           /\ SetHas(registeredRoutes', toLowerCase(r.model.name))
                           /\ Cardinality(MountsFor(mounts', toLowerCase(r.model.name))) = 1
                           /\ TableNameOf(r.model) \in DOMAIN tables'
                    /\ after.status = 500 =>
                           /\ after.log = <<"load", "createTable failed">>
                           /\ UNCHANGED <<tables, registeredRoutes, mounts>>]_vars

\* The materialization of the stored declaration Note failed: the publish
\* was answered 500 and Note is neither registered nor materialized.
C19_Witness ==
    \E a \in DOMAIN admin :
        /\ admin[a].op = "publish" /\ admin[a].modelName = "Note"
        /\ admin[a].status = 500
        /\ admin[a].log = <<"load", "createTable failed">>
        /\ FilePath("Note") \in DOMAIN models
        /\ ~isRouteRegistered("Note")
        /\ "notes" \notin DOMAIN tables

\* C20: a save, publish or delete sent by an authenticated actor whose role
\* is not Admin is answered 403 by requireRole before the route runs: the
\* request is over at once, and the step leaves the Model Store, the tables
\* and the registry as they were.
C20_AdminOnly ==
    [][\A a \in DOMAIN admin :
          LET after == admin'[a]
          IN (after.pc # "idle" /\ ~IsAbsent(after.user) /\ after.user.role # "Admin") =>
                 /\ after.pc = "done"
                 /\ after.status = 403
                 /\ after.log = <<>>
                 /\ admin[a] # after =>
                        UNCHANGED <<models, tables, registeredRoutes, mounts>>]_vars

\* A Manager asked to delete the stored declaration of Task and was
\* refused; the declaration is still stored.
C20_Witness ==
    \E a \in DOMAIN admin :
        /\ admin[a].op = "delete" /\ admin[a].modelName = "Task"
        /\ admin[a].user = IssuedTokens["tokU1"]
        /\ admin[a].status = 403
        /\ FilePath("Task") \in DOMAIN models

\* The declarations the store can hold under a name.
DeclarationsNamed(n) == {d \in (UNION StartupDecls) \cup SaveBodies : d.name = n}

\* C28: in every reachable state every registered model name has had its
\* table materialized: for each mounted handler the table of a declaration
\* of its model name exists (tables are never dropped, so a table that was
\* created is still there).
C28_RegisteredHaveTables ==
    \A i \in 1..Len(mounts) :
        /\ SetHas(registeredRoutes, toLowerCase(mounts[i].modelName))
        /\ \E d \in DeclarationsNamed(mounts[i].modelName) :
               TableNameOf(d) \in DOMAIN tables

\* A handler bound to model name n is mounted (createCRUDRoutes(n) loads the
\* declaration of n on every request).
HandlerBoundTo(n) == \E i \in 1..Len(mounts) : mounts[i].modelName = n

\* C29: the registry keeps one state per model name: every model name whose
\* registration has completed, by a successful publish or by seeding, has a
\* live handler of its own, bound to that name and so serving its requests
\* from that name's declaration; also for names that differ only in letter
\* case.
C29_HandlerPerName ==
    /\ \A a \in DOMAIN admin :
          (admin[a].op = "publish" /\ admin[a].status = 200) =>
              HandlerBoundTo(admin[a].model.name)
    /\ seed.pc = "done" =>
          \A i \in 1..Len(seed.list) : HandlerBoundTo(seed.list[i].name)

\* The FieldSpec invariant: field names unique within the declaration, none
\* a reserved column name or the ownerField.
FieldSpecHolds(model) ==
    LET fs == model.fields
    IN /\ \A i, j \in 1..Len(fs) : i # j => fs[i].name # fs[j].name
       /\ \A i \in 1..Len(fs) :
             /\ fs[i].name \notin ReservedFields
             /\ fs[i].name # model.ownerField

\* C25: every declaration held in the Model Store satisfies the FieldSpec
\* invariant (so no save through the administration surface has stored one
\* that violates it).
C25_StoredDeclarationsValid ==
    \A f \in DOMAIN models : FieldSpecHolds(JSONParse(models[f]))

(***************************************************************************)
(* Claims about the running process (checked under SpecLive)               *)
(***************************************************************************)
IsPrefix(s, t) == Len(s) <= Len(t) /\ \A i \in 1..Len(s) : s[i] = t[i]

\* C14: the registered set and the mounted handlers are empty at process
\* start, and no step of a save, publish, delete-model or record request
\* (or of seeding) removes a registered name or a mounted handler: both only
\* grow at their end.  A model so stays registered after its declaration is
\* deleted.
C14_RegistryOnlyGrows ==
    /\ registeredRoutes = <<>>
    /\ mounts = <<>>
    /\ [][/\ IsPrefix(registeredRoutes, registeredRoutes')
          /\ IsPrefix(mounts, mounts')]_vars

\* The declaration of Task was deleted by an administrator; Task is still
\* registered and its handler still mounted.
C14_Witness ==
    /\ admin[1].op = "delete" /\ admin[1].modelName = "Task" /\ admin[1].status = 200
    /\ FilePath("Task") \notin DOMAIN models
    /\ getRegisteredRoutes = <<"task">>
    /\ Cardinality(MountsFor(mounts, "task")) = 1

\* The operation token a record operation asks checkPermission for.
OpPermission(op) ==
    CASE op = "create" -> "create"
      [] op = "update" -> "update"
      [] op = "delete" -> "delete"
      [] OTHER -> "read"

\* C16: each record request is decided against the declaration the Model
\* Store holds at the time of the request (no administration request runs
\* beside a record request here, so that is the store of the current state):
\* the declaration the handler works on is the stored one, the request is
\* answered 403 exactly when checkPermission denies under the stored policy,
\* and when no declaration is stored under the handler's model name the
\* request is answered 404 without any storage operation.
C16_DecidedAgainstCurrentStore ==
    \A c \in DOMAIN reqs :
        LET r == reqs[c]
            file == FilePath(r.modelName)
        IN (r.pc \notin {"idle", "load"} /\ ~IsAbsent(r.user)) =>
               IF file \notin DOMAIN models
               THEN /\ r.pc = "done"
                    /\ r.status = 404
                    /\ r.resBody = ModelNotFound
                    /\ ~Logged(r, StorageEvents)
               ELSE LET stored == JSONParse(models[file])
                        decision == checkPermission([user |-> r.user], stored,
                                                    OpPermission(r.op), r.existing)
                    IN /\ r.model = stored
                       /\ r.status = 403 => decision = "false"
                       /\ (/\ decision = "false"
                           /\ r.op \in {"list", "get", "create"} \/ ~IsAbsent(r.existing))
                              => (r.pc = "done" /\ r.status = 403)

\* An administrator has replaced the startup declaration of Task (under which
\* a Viewer may read) by one that grants Viewer nothing; a Viewer's list
\* request is then refused.
C16_Witness ==
    /\ FilePath("Task") \in DOMAIN models
    /\ JSONParse(models[FilePath("Task")]) = DeclPlain
    /\ \E c \in DOMAIN reqs :
          /\ reqs[c].op = "list"
          /\ reqs[c].user = IssuedTokens["tokU3"]
          /\ reqs[c].status = 403

\* C21: createTableForModel never alters or drops an existing table: the
\* step of a publish that materializes leaves every existing table there,
\* with the columns, constraints, defaults and rows it had, also when the
\* declaration published differs from the one the table was created with.
C21_ExistingTableUntouched ==
    [][\A a \in DOMAIN admin :
          (admin[a].pc = "createTable" /\ admin'[a].pc # "createTable") =>
              \A t \in DOMAIN tables :
                  /\ t \in DOMAIN tables'
                  /\ tables'[t] = tables[t]]_vars

\* The table of Task was created with an owner column and holds a record;
\* the declaration was then replaced by one without ownerField and
\* published, and the table still has the owner column and the record.
C21_Witness ==
    /\ admin[1].op = "publish" /\ admin[1].status = 200
    /\ admin[1].model = DeclPlain
    /\ "ownerId" \in tables["tasks"].columns
    /\ tables["tasks"].rows # <<>>

\* The table name a declaration stands for: its tableName when it gives
\* one, else its lowercased name followed by 's'.
ClaimedTable(model) ==
    IF model.tableName # Undefined THEN model.tableName
    ELSE toLowerCase(model.name) \o "s"

\* The tables other than t are as they were.
OtherTablesUnchanged(t) ==
    /\ DOMAIN tables' = DOMAIN tables
    /\ \A u \in DOMAIN tables \ {t} : tables'[u] = tables[u]

\* C22: the materializer and the five record operations work on the same
\* table, named by the declaration's tableName when given and else by the
\* lowercased model name followed by 's', and every handler is mounted
\* under /api/<lowercased name>.  Stated on the steps that complete a
\* statement: a successful publish leaves a table of that name; list and
\* get answer from it; create, update and delete write it and no other.
C22_OneTableName ==
    [][/\ \A i \in 1..Len(mounts') :
             mounts'[i].path = <<"api", toLowerCase(mounts'[i].modelName)>>
       /\ \A a \in DOMAIN admin :
             (admin[a].pc = "createTable" /\ admin'[a].status = 200) =>
                 DOMAIN tables' = DOMAIN tables \cup {ClaimedTable(admin[a].model)}
       /\ \A c \in DOMAIN reqs :
             LET r == reqs[c]
                 after == reqs'[c]
                 t == ClaimedTable(r.model)
                 answered == r.pc \in {"select", "insert", "write"} /\ after.pc = "done"
             IN /\ (answered /\ r.op = "list" /\ after.status = 200) =>
                       /\ t \in DOMAIN tables
                       /\ {after.resBody.list[i] : i \in DOMAIN after.resBody.list}
                              = {tables[t].rows[id] : id \in DOMAIN tables[t].rows}
                /\ (answered /\ r.op = "get" /\ after.status \in {200, 404}) =>
                       /\ t \in DOMAIN tables
                       /\ after.status = 200 => after.resBody = tables[t].rows[r.id]
                       /\ after.status = 404 => r.id \notin DOMAIN tables[t].rows
                /\ (answered /\ r.op = "create" /\ after.status = 201) =>
                       /\ t \in DOMAIN tables
                       /\ tables'[t].rows[after.resBody.id] = after.resBody
                       /\ OtherTablesUnchanged(t)
                /\ (r.pc = "fetch" /\ after.pc = "write") =>
                       /\ t \in DOMAIN tables
                       /\ after.existing = tables[t].rows[r.id]
                /\ (answered /\ r.op = "update" /\ after.status = 200
                       /\ ~IsAbsent(after.resBody)) =>
                       /\ t \in DOMAIN tables
                       /\ tables'[t].rows[r.id] = after.resBody
                       /\ OtherTablesUnchanged(t)
                /\ (answered /\ r.op = "delete" /\ after.status = 200) =>
                       /\ t \in DOMAIN tables
                       /\ r.id \notin DOMAIN tables'[t].rows
                       /\ OtherTablesUnchanged(t)]_vars

\* The declaration Note names its table memos: its publish created memos and
\* no table notes, its handler is mounted under /api/note, and a create on
\* it put its record into memos.
C22_Witness ==
    /\ DOMAIN tables = {"memos"}
    /\ \E i \in 1..Len(mounts) : mounts[i] = [path |-> <<"api", "note">>, modelName |-> "Note"]
    /\ \E c \in DOMAIN reqs :
          /\ reqs[c].op = "create" /\ reqs[c].status = 201
          /\ reqs[c].model = DeclTabled
          /\ tables["memos"].rows[reqs[c].resBody.id] = reqs[c].resBody

(***************************************************************************)
(* Claims about the Model Store functions (checked under SpecStore)        *)
(***************************************************************************)
\* Declaration got is declaration d, field for field.
SameDeclaration(got, d) ==
    /\ ~IsAbsent(got)
    /\ got.name = d.name
    /\ got.tableName = d.tableName
    /\ got.fields = d.fields
    /\ got.ownerField = d.ownerField
    /\ got.rbac = d.rbac

\* The positions of list that hold a declaration named n.
NamedIn(list, n) == {i \in 1..Len(list) : list[i].name = n}

\* C17: the call that follows a completed saveModelDefinition(d): a
\* loadModelDefinition(d.name) returns a declaration identical to d field
\* for field (also when d overwrote another declaration of that name), and
\* a listModelDefinitions() holds exactly one declaration of that name,
\* which is d.
C17_SaveLoadRoundTrip ==
    LET save == storeCall.prev
        next == storeCall.last
    IN (save.fn = "save" /\ save.outcome = "ok") =>
           /\ (next.fn = "load" /\ next.name = save.name) =>
                  SameDeclaration(next.result, save.decl)
           /\ next.fn = "list" =>
                  /\ Cardinality(NamedIn(next.list, save.name)) = 1
                  /\ \A i \in NamedIn(next.list, save.name) :
                         SameDeclaration(next.list[i], save.decl)

\* A second save under the name Task replaced another declaration, and the
\* load after it returned the second declaration.
C17_Witness ==
    /\ storeCall.prev.fn = "save" /\ storeCall.prev.outcome = "ok"
    /\ storeCall.prev.decl = DeclPlain
    /\ FilePath("Task") \in DOMAIN storeCall.prev.before
    /\ JSONParse(storeCall.prev.before[FilePath("Task")]) = DeclOwned
    /\ storeCall.last.fn = "load" /\ storeCall.last.name = "Task"
    /\ storeCall.last.result = DeclPlain

\* C18: loadModelDefinition on a name with no stored declaration returns
\* null and does not throw; deleteModelDefinition on such a name leaves the
\* store unchanged and throws only if its metadata statement fails; and the
\* call that follows a completed deleteModelDefinition(n): a load of n
\* returns null, a list holds no declaration named n.
C18_MissingNamesAndDelete ==
    LET call == storeCall.last
        earlier == storeCall.prev
        missing == FilePath(call.name) \notin DOMAIN call.before
    IN /\ (call.fn = "load" /\ missing) =>
              (IsAbsent(call.result) /\ call.outcome = "ok")
       /\ (call.fn = "delete" /\ missing) =>
              /\ models = call.before
              /\ call.outcome = "threw" <=> call.db = "failed"
       /\ (earlier.fn = "delete" /\ earlier.outcome = "ok") =>
              /\ (call.fn = "load" /\ call.name = earlier.name) =>
                     (IsAbsent(call.result) /\ call.outcome = "ok")
              /\ call.fn = "list" => NamedIn(call.list, earlier.name) = {}

\* The stored declaration of Task was deleted; the list after it holds the
\* other declaration only.
C18_Witness ==
    /\ storeCall.prev.fn = "delete" /\ storeCall.prev.name = "Task"
    /\ storeCall.prev.outcome = "ok"
    /\ FilePath("Task") \in DOMAIN storeCall.prev.before
    /\ storeCall.last.fn = "list"
    /\ storeCall.last.list = <<DeclNote>>

\* What loadModelDefinition(n) returns on the models directory dir.
LoadedFrom(dir, n) ==
    IF FilePath(n) \in DOMAIN dir THEN JSONParse(dir[FilePath(n)]) ELSE Absent

\* The call reported a failure to its caller.
ReportedFailure(call) == call.fn \in {"save", "delete"} /\ call.outcome = "threw"

\* C30 as stated: when saveModelDefinition or deleteModelDefinition reports
\* a failure, the Model Store is unchanged: a load that follows returns what
\* it would have returned before the failed call, a list holds the same
\* declarations.
C30_FailureLeavesStoreUnchanged ==
    LET failed == storeCall.prev
        next == storeCall.last
    IN /\ ReportedFailure(next) => models = next.before
       /\ ReportedFailure(failed) =>
              /\ (next.fn = "load" /\ next.name = failed.name) =>
                     next.result = LoadedFrom(failed.before, failed.name)
              /\ next.fn = "list" =>
                     Len(next.list) = Cardinality(DOMAIN failed.before)

\* C30 amended: a failure of the file step of saveModelDefinition leaves the
\* Model Store unchanged; a failure of the metadata statement that follows
\* the file step (upsert, deleteMany) is reported with the file step in
\* effect: after such a save the next load returns the declaration that was
\* being saved and the list holds it, after such a delete the next load
\* returns null and the list does not hold the name.  Declarations under
\* other names are as they were.
C30_FileStepStands ==
    LET failed == storeCall.prev
        next == storeCall.last
        others == (DOMAIN next.before \cup DOMAIN models) \ {FilePath(next.name)}
    IN /\ ReportedFailure(next) =>
              /\ next.db = "none" => models = next.before
              /\ \A f \in others :
                     /\ f \in DOMAIN next.before
                     /\ f \in DOMAIN models
                     /\ models[f] = next.before[f]
       /\ (ReportedFailure(failed) /\ failed.db = "failed") =>
              /\ (next.fn = "load" /\ next.name = failed.name) =>
                     IF failed.fn = "save" THEN SameDeclaration(next.result, failed.decl)
                     ELSE IsAbsent(next.result)
              /\ next.fn = "list" =>
                     IF failed.fn = "save"
                     THEN /\ Cardinality(NamedIn(next.list, failed.name)) = 1
                          /\ \A i \in NamedIn(next.list, failed.name) :
                                 SameDeclaration(next.list[i], failed.decl)
                     ELSE NamedIn(next.list, failed.name) = {}
       /\ (/\ ReportedFailure(failed) /\ failed.db = "none"
           /\ next.fn = "load" /\ next.name = failed.name) =>
              next.result = LoadedFrom(failed.before, failed.name)

\* A save of a second declaration of Task reported the failure of its
\* upsert; the load after it returned the second declaration, not the one
\* stored before.
C30_Witness ==
    /\ storeCall.prev.fn = "save" /\ storeCall.prev.outcome = "threw"
    /\ storeCall.prev.db = "failed"
    /\ storeCall.prev.decl = DeclPlain
    /\ LoadedFrom(storeCall.prev.before, "Task") = DeclOwned
    /\ storeCall.last.fn = "load" /\ storeCall.last.name = "Task"
    /\ storeCall.last.result = DeclPlain

====
